---- MODULE Spec2Model ----
(***************************************************************************)
(* The asynchronous-workflow polling protocol of the IRP integration       *)
(* client: the three single-handle pollers, the two list-style batch       *)
(* pollers, the per-job geohaz batch poller and execute_workflow.          *)
(*                                                                         *)
(* Spec is the polling protocol; ManagerSpec is the resource-manager        *)
(* operations (portfolio, MRI import) and the helper functions they use;   *)
(* PairSpec is two pollers and SyncSpec two mapping syncs run by two       *)
(* threads.                                                                *)
(*                                                                         *)
(* In Spec and ManagerSpec one behaviour is one call of one operation (the *)
(* library starts no thread and keeps no state between calls).  The server *)
(* is the environment: its responses are drawn from small sets.  A Python  *)
(* dict is a TLA+ record whose DOMAIN is the set of keys present, so a     *)
(* missing key is a missing field (<<>> is the empty dict).                *)
(***************************************************************************)
EXTENDS Integers, Sequences, FiniteSets, TLC

VARIABLES
    op,             \* the operation that was called
    handle,         \* workflow_id / job_id / workflow_url / list of ids
    interval,       \* the poller's interval argument
    timeout,        \* the poller's timeout argument
    pc,             \* position of the call
    start,          \* local `start` (time.time() at the top of the poller)
    now,            \* wall clock, seconds
    response,       \* local `response`: the submission response, or the last page
                    \* of a listing without its workflows (all_items holds them)
    all_items,      \* local all_workflows / all_jobs of the current tick
    offset,         \* local `offset` of the current tick
    all_completed,  \* local `all_completed` of the current tick
    seen,           \* history: status payloads fetched by a single-handle poller
    tick_log,       \* history: the job records / listed workflows fetched in the
                    \* current tick of a batch poller, in the order received
    page_log,       \* history of the page requests of the current tick: the
                    \* `offset` parameter of each, the totalMatchCount values
                    \* answered, and whether every page held as many workflows
                    \* as was asked for (limit, or what was left of the total)
    targets,        \* history: URLs / ids that were sent a status GET
    submits,        \* history: number of submission requests
    sleeps,         \* history: number of time.sleep(interval) calls
    result,         \* the value returned, once pc = "returned"
    raised,         \* the exception raised, once pc = "raised"
    args,           \* the arguments of a manager operation or helper function
    world,          \* what a manager operation meets: the answers of the server
                    \* to its requests and the local files
    calls,          \* history: the calls made to the outside, in order (HTTP
                    \* requests by endpoint, uploads, SQL executions, file
                    \* writes) and the decode_base64_field calls by field
    client,         \* the fields of the Client object, which concurrent calls share
    running,        \* concurrent calls: the thread whose locals the variables
                    \* above hold
    frames          \* concurrent calls: the locals of each thread as they were
                    \* when it last ran (those of a thread that is not running
                    \* are its locals now)

vars == <<op, handle, interval, timeout, pc, start, now, response, all_items,
          offset, all_completed, seen, tick_log, page_log, targets, submits,
          sleeps, result, raised, args, world, calls, client, running, frames>>

----------------------------------------------------------------------------
(* Bounds of the exploration *)

MaxInterval == 2
MaxTimeout == 2
\* longest latency of one transport call, in seconds
MaxFetchDur == 2
\* longest list of job ids
MaxJobs == 2
\* pages of one tick whose offset is tracked exactly
MaxPages == 5
\* ticks explored of the poll that execute_workflow starts
MaxFetches == 3

(* Program constants *)

limit == 100
DefaultInterval == 10
DefaultTimeout == 600000

----------------------------------------------------------------------------
(* Status classification *)

WORKFLOW_COMPLETED_STATUSES == {"FINISHED", "FAILED"}
WORKFLOW_IN_PROGRESS_STATUSES == {"QUEUED", "RUNNING"}

Statuses ==
    WORKFLOW_COMPLETED_STATUSES \cup WORKFLOW_IN_PROGRESS_STATUSES \cup {"UNKNOWN"}

SingleOps ==
    {"poll_workflow", "poll_workflow_to_completion", "poll_geohaz_job_to_completion"}
ListOps ==
    {"poll_workflow_batch_to_completion", "poll_import_job_batch_to_completion"}
GeohazBatchOps == {"poll_geohaz_job_batch_to_completion"}
ExecOps == {"execute_workflow"}
Ops == SingleOps \cup ListOps \cup GeohazBatchOps \cup ExecOps

Terminal == {"returned", "raised"}

NotSet == <<>>
NoPages == [offsets |-> <<>>, totals |-> {}, as_asked |-> TRUE]

----------------------------------------------------------------------------
(* Inputs and server responses *)

\* " " stands for any string of whitespace only
WorkflowUrl == "https://host/workflows/42"
Urls == {"", " ", WorkflowUrl}
Ids == {0, 42}

\* lists of distinct job ids, written in descending order
IdLists == {[i \in 1..n |-> n + 1 - i] : n \in 0..MaxJobs}
WorkflowIdLists == {<<>>, <<42, 7>>}

Intervals == 0..MaxInterval
Timeouts == 0..MaxTimeout
\* a transport call answers at once or after the longest latency
Durations == {0, MaxFetchDur}

\* JSON bodies of a status GET: well formed, without progress, without status
StatusPayloads ==
    {[status |-> s, progress |-> 50] : s \in Statuses}
        \cup {[status |-> s] : s \in {"FINISHED", "RUNNING"}}
        \cup {[progress |-> 50]}

\* the ids of the handles are carried by the per-job payloads
JobPayloads(job_id) ==
    {[id |-> job_id, status |-> s, progress |-> 50] : s \in Statuses}
        \cup {[id |-> job_id, progress |-> 50]}

Page(n, s) == [i \in 1..n |-> [status |-> s]]

\* a page of workflows without a status field and of workflows whose status
\* is in neither set, in turn
OddPage(n) ==
    [i \in 1..n |-> IF i % 2 = 1 THEN [progress |-> 50] ELSE [status |-> "UNKNOWN"]]

ListResponses ==
    {[totalMatchCount |-> t, workflows |-> Page(n, s)] :
        t \in {100, 250}, n \in {50, 100}, s \in {"FINISHED", "RUNNING"}}
        \cup {[totalMatchCount |-> t] : t \in {100, 250}}
        \cup {[workflows |-> Page(50, "FINISHED")]}
        \cup {[totalMatchCount |-> 100, workflows |-> OddPage(50)]}

SubmitResponses ==
    {[status_code |-> c, headers |-> h] :
        c \in {200, 201, 202},
        h \in {<<>>} \cup {[location |-> u] : u \in Urls}}

----------------------------------------------------------------------------
(* Python helpers *)

\* dict.get(key, default)
get(d, key, default) == IF key \in DOMAIN d THEN d[key] ELSE default

\* str.strip() leaves nothing
IsBlank(s) == s \in {"", " "}

\* The clock after a transport call that took d seconds.  The pollers read
\* the clock only in `time.time() - start > timeout`, so latency is not
\* tracked any further once the deadline has passed.
Advance(t, d) == IF t - start > timeout THEN t ELSE t + d

\* outcomes of one step of an operation
Return(v) == [pc |-> "returned", result |-> v, raised |-> NotSet]
Raise(type, info) == [pc |-> "raised", result |-> NotSet,
                      raised |-> [type |-> type, info |-> info]]
Goto(label) == [pc |-> label, result |-> NotSet, raised |-> NotSet]

----------------------------------------------------------------------------
(* Validation helpers *)

validate_positive_int(value) == value > 0
validate_non_empty_string(value) == ~IsBlank(value)
validate_list_not_empty(value) == Len(value) # 0

\* the name of the first argument a poller rejects, "" when it accepts them all
FirstInvalid(handle_ok, handle_name) ==
    IF ~handle_ok THEN handle_name
    ELSE IF ~validate_positive_int(interval) THEN "interval"
    ELSE IF ~validate_positive_int(timeout) THEN "timeout"
    ELSE ""

Validation ==
    CASE op = "poll_workflow" ->
            FirstInvalid(validate_non_empty_string(handle), "workflow_url")
      [] op = "poll_workflow_to_completion" ->
            FirstInvalid(validate_positive_int(handle), "workflow_id")
      [] op = "poll_geohaz_job_to_completion" ->
            FirstInvalid(validate_positive_int(handle), "job_id")
      [] op = "poll_geohaz_job_batch_to_completion" ->
            FirstInvalid(validate_list_not_empty(handle), "job_ids")
      [] OTHER ->
            FirstInvalid(validate_list_not_empty(handle), "workflow_ids")

----------------------------------------------------------------------------
(* The top of the `while True` loop of each poller *)

\* a variant that carries the pagination state over from the previous tick
list_tick_begin_carried_over ==
    [all_items |-> all_items, offset |-> offset, all_completed |-> FALSE]

\* all_workflows = []; offset = 0; limit = 100
list_tick_begin == [all_items |-> <<>>, offset |-> 0, all_completed |-> FALSE]

\* all_completed = False; all_jobs = []
geohaz_tick_begin == [all_items |-> <<>>, offset |-> 0, all_completed |-> FALSE]

single_tick_begin == [all_items |-> <<>>, offset |-> 0, all_completed |-> FALSE]

TickBegin ==
    IF op \in ListOps THEN list_tick_begin
    ELSE IF op \in GeohazBatchOps THEN geohaz_tick_begin
    ELSE single_tick_begin

----------------------------------------------------------------------------
(* One tick of each single-handle poller: the outcome of the loop body once *)
(* the status GET has returned the given body at time t                     *)

\* a variant that takes every status outside IN_PROGRESS for a final one
poll_workflow_to_completion_tick_not_in_progress(job_data, t) ==
    IF ~({"status", "progress"} \subseteq DOMAIN job_data)
    THEN Raise("IRPAPIError", "Missing 'status' or 'progress'")
    ELSE IF job_data.status \notin WORKFLOW_IN_PROGRESS_STATUSES
    THEN Return(job_data)
    ELSE IF t - start > timeout
    THEN Raise("IRPJobError", job_data.status)
    ELSE Goto("sleep")

poll_workflow_to_completion_tick(job_data, t) ==
    IF ~({"status", "progress"} \subseteq DOMAIN job_data)
    THEN Raise("IRPAPIError", "Missing 'status' or 'progress'")
    ELSE IF job_data.status \in WORKFLOW_COMPLETED_STATUSES
    THEN Return(job_data)
    ELSE IF t - start > timeout
    THEN Raise("IRPJobError", job_data.status)
    ELSE Goto("sleep")

\* a variant whose timeout error does not carry the status it observed
poll_workflow_tick_no_status(workflow_data, t) ==
    LET status == get(workflow_data, "status", "")
    IN  IF status \in WORKFLOW_COMPLETED_STATUSES
        THEN Return(workflow_data)
        ELSE IF t - start > timeout
        THEN Raise("IRPWorkflowError", "")
        ELSE Goto("sleep")

\* a variant that returns the first response it received, not the last
poll_workflow_tick_first_response(workflow_data, t) ==
    LET status == get(workflow_data, "status", "")
    IN  IF status \in WORKFLOW_COMPLETED_STATUSES
        THEN Return(IF seen = <<>> THEN workflow_data ELSE seen[1])
        ELSE IF t - start > timeout
        THEN Raise("IRPWorkflowError", status)
        ELSE Goto("sleep")

\* a variant that times out as soon as the elapsed time reaches the timeout
poll_workflow_tick_at_timeout(workflow_data, t) ==
    LET status == get(workflow_data, "status", "")
    IN  IF status \in WORKFLOW_COMPLETED_STATUSES
        THEN Return(workflow_data)
        ELSE IF t - start >= timeout
        THEN Raise("IRPWorkflowError", status)
        ELSE Goto("sleep")

poll_workflow_tick(workflow_data, t) ==
    LET status == get(workflow_data, "status", "")
    IN  IF status \in WORKFLOW_COMPLETED_STATUSES
        THEN Return(workflow_data)
        ELSE IF t - start > timeout
        THEN Raise("IRPWorkflowError", status)
        ELSE Goto("sleep")

\* a variant that makes the timeout check before it looks at the status
poll_geohaz_job_to_completion_tick_timeout_first(job_data, t) ==
    IF ~({"status", "progress"} \subseteq DOMAIN job_data)
    THEN Raise("IRPAPIError", "Missing 'status' or 'progress'")
    ELSE IF t - start > timeout
    THEN Raise("IRPJobError", job_data.status)
    ELSE IF job_data.status \in WORKFLOW_COMPLETED_STATUSES
    THEN Return(job_data)
    ELSE Goto("sleep")

poll_geohaz_job_to_completion_tick(job_data, t) ==
    IF ~({"status", "progress"} \subseteq DOMAIN job_data)
    THEN Raise("IRPAPIError", "Missing 'status' or 'progress'")
    ELSE IF job_data.status \in WORKFLOW_COMPLETED_STATUSES
    THEN Return(job_data)
    ELSE IF t - start > timeout
    THEN Raise("IRPJobError", job_data.status)
    ELSE Goto("sleep")

----------------------------------------------------------------------------
(* One page request of a list-style batch poller, and what follows it up to *)
(* the next request, sleep, return or raise                                 *)

\* page positions past MaxPages pages are not told apart (Python integers do not
\* overflow; the server's answers do not depend on the offset here)
NextOffset(off) == IF off >= MaxPages * limit THEN off ELSE off + limit

BatchOut(out, items, completed, off) ==
    [pc |-> out.pc, result |-> out.result, raised |-> out.raised,
     all_items |-> items, all_completed |-> completed, offset |-> off]

\* a variant of the scan for which only a COMPLETED status is a final one
NoneInProgress_completed_only(workflows) ==
    \A k \in 1..Len(workflows) :
        get(workflows[k], "status", "") \in WORKFLOW_COMPLETED_STATUSES

\* the scan `for workflow in all_workflows` of a list-style batch poller
NoneInProgress(workflows) ==
    \A k \in 1..Len(workflows) :
        get(workflows[k], "status", "") \notin WORKFLOW_IN_PROGRESS_STATUSES

\* a variant that looks at the clock before it looks at the statuses
poll_workflow_batch_page_timeout_first(response_data, t) ==
    IF "totalMatchCount" \notin DOMAIN response_data
    THEN BatchOut(Raise("IRPAPIError", "Missing 'totalMatchCount'"),
                  all_items, all_completed, offset)
    ELSE LET total_match_count == response_data.totalMatchCount
             workflows == get(response_data, "workflows", <<>>)
             all_workflows == all_items \o workflows
             completed == NoneInProgress(all_workflows)
         IN  IF Len(all_workflows) >= total_match_count
             THEN IF t - start > timeout
                  THEN BatchOut(Raise("IRPWorkflowError", "batch"),
                                all_workflows, completed, offset)
                  ELSE IF completed
                  THEN BatchOut(Return(response_data), all_workflows, completed, offset)
                  ELSE BatchOut(Goto("sleep"), all_workflows, completed, offset)
             ELSE BatchOut(Goto("fetch"), all_workflows, all_completed,
                           NextOffset(offset))

poll_workflow_batch_page(response_data, t) ==
    IF "totalMatchCount" \notin DOMAIN response_data
    THEN BatchOut(Raise("IRPAPIError", "Missing 'totalMatchCount'"),
                  all_items, all_completed, offset)
    ELSE LET total_match_count == response_data.totalMatchCount
             workflows == get(response_data, "workflows", <<>>)
             all_workflows == all_items \o workflows
             completed == NoneInProgress(all_workflows)
         IN  IF Len(all_workflows) >= total_match_count
             THEN IF completed
                  \* response_data['workflows'] = all_workflows changes the parsed
                  \* copy; the Response that is returned keeps the body it received
                  THEN BatchOut(Return(response_data), all_workflows, completed, offset)
                  ELSE IF t - start > timeout
                  THEN BatchOut(Raise("IRPWorkflowError", "batch"),
                                all_workflows, completed, offset)
                  ELSE BatchOut(Goto("sleep"), all_workflows, completed, offset)
             ELSE BatchOut(Goto("fetch"), all_workflows, all_completed,
                           NextOffset(offset))

\* a variant that scans only the page just received
poll_import_job_batch_page_last_page_only(response_data, t) ==
    IF "totalMatchCount" \notin DOMAIN response_data
    THEN BatchOut(Raise("IRPAPIError", "Missing 'totalMatchCount'"),
                  all_items, all_completed, offset)
    ELSE LET total_match_count == response_data.totalMatchCount
             workflows == get(response_data, "workflows", <<>>)
             all_workflows == all_items \o workflows
             completed == NoneInProgress(workflows)
         IN  IF Len(all_workflows) >= total_match_count
             THEN IF completed
                  THEN BatchOut(Return(all_workflows), all_workflows, completed, offset)
                  ELSE IF t - start > timeout
                  THEN BatchOut(Raise("IRPJobError", "batch"),
                                all_workflows, completed, offset)
                  ELSE BatchOut(Goto("sleep"), all_workflows, completed, offset)
             ELSE BatchOut(Goto("fetch"), all_workflows, all_completed,
                           NextOffset(offset))

poll_import_job_batch_page(response_data, t) ==
    IF "totalMatchCount" \notin DOMAIN response_data
    THEN BatchOut(Raise("IRPAPIError", "Missing 'totalMatchCount'"),
                  all_items, all_completed, offset)
    ELSE LET total_match_count == response_data.totalMatchCount
             workflows == get(response_data, "workflows", <<>>)
             all_workflows == all_items \o workflows
             completed == NoneInProgress(all_workflows)
         IN  IF Len(all_workflows) >= total_match_count
             THEN IF completed
                  THEN BatchOut(Return(all_workflows), all_workflows, completed, offset)
                  ELSE IF t - start > timeout
                  THEN BatchOut(Raise("IRPJobError", "batch"),
                                all_workflows, completed, offset)
                  ELSE BatchOut(Goto("sleep"), all_workflows, completed, offset)
             ELSE BatchOut(Goto("fetch"), all_workflows, all_completed,
                           NextOffset(offset))

----------------------------------------------------------------------------
(* One status call of the geohaz batch poller (one iteration of             *)
(* `for job_id in job_ids`), and what follows it when the loop ends         *)

\* a variant that hands back the job ids together with its timeout error
geohaz_loop_end_partial(all_jobs, completed, t) ==
    IF completed
    THEN BatchOut(Return(all_jobs), all_jobs, completed, offset)
    ELSE IF t - start > timeout
    THEN BatchOut([pc |-> "raised", result |-> handle,
                   raised |-> [type |-> "IRPJobError", info |-> "batch"]],
                  all_jobs, completed, offset)
    ELSE BatchOut(Goto("sleep"), all_jobs, completed, offset)

geohaz_loop_end(all_jobs, completed, t) ==
    IF completed
    THEN BatchOut(Return(all_jobs), all_jobs, completed, offset)
    ELSE IF t - start > timeout
    THEN BatchOut(Raise("IRPJobError", "batch"), all_jobs, completed, offset)
    ELSE BatchOut(Goto("sleep"), all_jobs, completed, offset)

\* a variant that keeps the records of a tick cut short by a job in progress
poll_geohaz_job_batch_step_keeps_records(workflow_response, t) ==
    LET all_jobs == Append(all_items, workflow_response)
    IN  IF "status" \notin DOMAIN workflow_response
        THEN BatchOut(Raise("IRPAPIError", "Missing 'status'"),
                      all_jobs, all_completed, offset)
        ELSE IF workflow_response.status \in WORKFLOW_IN_PROGRESS_STATUSES
        THEN geohaz_loop_end(all_jobs, all_completed, t)
        ELSE IF Len(all_jobs) < Len(handle)
        THEN BatchOut(Goto("fetch"), all_jobs, TRUE, offset)
        ELSE geohaz_loop_end(all_jobs, TRUE, t)

poll_geohaz_job_batch_step(workflow_response, t) ==
    LET all_jobs == Append(all_items, workflow_response)
    IN  IF "status" \notin DOMAIN workflow_response
        THEN BatchOut(Raise("IRPAPIError", "Missing 'status'"),
                      all_jobs, all_completed, offset)
        ELSE IF workflow_response.status \in WORKFLOW_IN_PROGRESS_STATUSES
        \* all_jobs = []; break -- all_completed keeps the value it has
        THEN geohaz_loop_end(<<>>, all_completed, t)
        ELSE IF Len(all_jobs) < Len(handle)
        THEN BatchOut(Goto("fetch"), all_jobs, TRUE, offset)
        ELSE geohaz_loop_end(all_jobs, TRUE, t)

----------------------------------------------------------------------------
(* execute_workflow, from the submission response to the start of the poll  *)

get_location_header(resp) ==
    IF "location" \notin DOMAIN resp.headers
    THEN Raise("IRPAPIError", "Location header missing")
    ELSE Return(get(resp.headers, "location", ""))

\* poll_workflow(workflow_url): its validation, then `start = time.time()`
poll_workflow_call(workflow_url) ==
    IF ~validate_non_empty_string(workflow_url)
    THEN Raise("IRPValidationError", "workflow_url")
    ELSE [Goto("fetch") EXCEPT !.result = workflow_url]

execute_workflow_submitted(resp) ==
    IF resp.status_code \notin {201, 202}
    THEN Return(resp)
    ELSE LET workflow_url == get_location_header(resp)
         IN  IF workflow_url.pc = "raised"
             THEN workflow_url
             ELSE IF workflow_url.result = ""
             THEN Raise("IRPAPIError", "Location header is missing")
             ELSE poll_workflow_call(workflow_url.result)

----------------------------------------------------------------------------
(* The state machine *)

Handles(o) ==
    IF o = "poll_workflow" THEN Urls
    ELSE IF o \in SingleOps THEN Ids
    ELSE IF o \in ExecOps THEN {NotSet}
    ELSE IF o \in ListOps THEN WorkflowIdLists
    ELSE IdLists

\* Client.__init__: the fields of a Client as constructed
Client ==
    [base_url |-> "https://host",
     headers |-> [Authorization |-> "key", resource_group_id |-> "group"],
     timeout |-> 200]

InitOf(ops) ==
    /\ op \in ops
    /\ handle \in Handles(op)
    /\ interval \in (IF op \in ExecOps THEN {DefaultInterval} ELSE Intervals)
    /\ timeout \in (IF op \in ExecOps THEN {DefaultTimeout} ELSE Timeouts)
    /\ pc = (IF op \in ExecOps THEN "submit" ELSE "start")
    /\ start = 0
    /\ now = 0
    /\ response = NotSet
    /\ all_items = <<>>
    /\ offset = 0
    /\ all_completed = FALSE
    /\ seen = <<>>
    /\ tick_log = <<>>
    /\ page_log = NoPages
    /\ targets = {}
    /\ submits = 0
    /\ sleeps = 0
    /\ result = NotSet
    /\ raised = NotSet
    /\ args = NotSet
    /\ world = NotSet
    /\ calls = <<>>
    /\ client = Client
    /\ running = 1
    /\ frames = NotSet

Init == InitOf(Ops)

\* what a step leaves of the call: its position, its value or its exception
Finish(out) ==
    /\ pc' = out.pc
    /\ result' = out.result
    /\ raised' = out.raised

\* A poller is called: it validates its arguments, reads the clock into
\* `start` and reaches the top of its loop.
Call ==
    /\ pc = "start"
    /\ IF Validation # ""
       THEN /\ Finish(Raise("IRPValidationError", Validation))
            /\ UNCHANGED <<all_items, offset, all_completed>>
       ELSE /\ Finish(Goto("fetch"))
            /\ all_items' = TickBegin.all_items
            /\ offset' = TickBegin.offset
            /\ all_completed' = TickBegin.all_completed
    /\ start' = now
    /\ UNCHANGED <<op, handle, interval, timeout, now, response, seen, tick_log,
                   page_log, targets, submits, sleeps, args, world, calls,
                   client, running, frames>>

\* a variant that sleeps longer after every tick
Sleep_with_backoff ==
    /\ pc = "sleep"
    /\ pc' = "fetch"
    /\ now' = now + interval * (sleeps + 1)
    /\ sleeps' = sleeps + 1
    /\ all_items' = TickBegin.all_items
    /\ offset' = TickBegin.offset
    /\ all_completed' = TickBegin.all_completed
    /\ tick_log' = <<>>
    /\ page_log' = NoPages
    /\ UNCHANGED <<op, handle, interval, timeout, start, response, seen, targets,
                   submits, result, raised, args, world, calls,
                   client, running, frames>>

\* time.sleep(interval), then the top of the loop again
Sleep ==
    /\ pc = "sleep"
    /\ pc' = "fetch"
    /\ now' = now + interval
    /\ sleeps' = sleeps + 1
    /\ all_items' = TickBegin.all_items
    /\ offset' = TickBegin.offset
    /\ all_completed' = TickBegin.all_completed
    /\ tick_log' = <<>>
    /\ page_log' = NoPages
    /\ UNCHANGED <<op, handle, interval, timeout, start, response, seen, targets,
                   submits, result, raised, args, world, calls,
                   client, running, frames>>

\* the part of a single-handle tick the three pollers share
SingleTick(body, t, out) ==
    /\ now' = t
    /\ seen' = Append(seen, body)
    /\ targets' = targets \cup {handle}
    /\ Finish(out)
    /\ UNCHANGED <<op, handle, interval, timeout, start, response, all_items,
                   offset, all_completed, tick_log, page_log, submits, sleeps,
                   args, world, calls,
                   client, running, frames>>

poll_workflow_to_completion ==
    /\ op = "poll_workflow_to_completion"
    /\ pc = "fetch"
    /\ \E job_data \in StatusPayloads, d \in Durations :
          SingleTick(job_data, Advance(now, d),
                     poll_workflow_to_completion_tick(job_data, Advance(now, d)))

\* also the poll that execute_workflow hands its Location URL to
poll_workflow ==
    /\ op \in {"poll_workflow", "execute_workflow"}
    /\ pc = "fetch"
    /\ op = "execute_workflow" => Len(seen) < MaxFetches
    /\ \E workflow_data \in StatusPayloads, d \in Durations :
          SingleTick(workflow_data, Advance(now, d),
                     poll_workflow_tick(workflow_data, Advance(now, d)))

poll_geohaz_job_to_completion ==
    /\ op = "poll_geohaz_job_to_completion"
    /\ pc = "fetch"
    /\ \E job_data \in StatusPayloads, d \in Durations :
          SingleTick(job_data, Advance(now, d),
                     poll_geohaz_job_to_completion_tick(job_data, Advance(now, d)))

\* a page that holds the workflows left of its totalMatchCount after `before`
\* earlier ones, up to limit
AsAsked(body, before) ==
    LET total == get(body, "totalMatchCount", -1)
        left == IF total > before THEN total - before ELSE 0
    IN  Len(get(body, "workflows", <<>>)) = (IF left < limit THEN left ELSE limit)

\* the part of a batch request the three batch pollers share
BatchStep(body, t, out, target) ==
    /\ now' = t
    /\ response' = IF op \in ListOps /\ "totalMatchCount" \in DOMAIN body
                   THEN [totalMatchCount |-> body.totalMatchCount] ELSE NotSet
    /\ tick_log' = IF op \in GeohazBatchOps THEN Append(tick_log, body)
                   ELSE tick_log \o get(body, "workflows", <<>>)
    /\ page_log' = IF op \in ListOps
                   THEN [offsets |-> IF Len(page_log.offsets) <= MaxPages
                                     THEN Append(page_log.offsets, offset)
                                     ELSE page_log.offsets,
                         totals |-> page_log.totals
                                        \cup {get(body, "totalMatchCount", -1)},
                         as_asked |-> page_log.as_asked
                                        /\ AsAsked(body, Len(tick_log))]
                   ELSE page_log
    /\ targets' = targets \cup {target}
    /\ Finish(out)
    /\ all_items' = out.all_items
    /\ all_completed' = out.all_completed
    /\ offset' = out.offset
    /\ UNCHANGED <<op, handle, interval, timeout, start, seen, submits, sleeps,
                   args, world, calls,
                   client, running, frames>>

poll_workflow_batch_to_completion ==
    /\ op = "poll_workflow_batch_to_completion"
    /\ pc = "fetch"
    /\ \E response_data \in ListResponses, d \in Durations :
          BatchStep(response_data, Advance(now, d),
                    poll_workflow_batch_page(response_data, Advance(now, d)), handle)

poll_import_job_batch_to_completion ==
    /\ op = "poll_import_job_batch_to_completion"
    /\ pc = "fetch"
    /\ \E response_data \in ListResponses, d \in Durations :
          BatchStep(response_data, Advance(now, d),
                    poll_import_job_batch_page(response_data, Advance(now, d)), handle)

poll_geohaz_job_batch_to_completion ==
    /\ op = "poll_geohaz_job_batch_to_completion"
    /\ pc = "fetch"
    /\ LET job_id == handle[Len(all_items) + 1]
       IN  \E workflow_response \in JobPayloads(job_id), d \in Durations :
              BatchStep(workflow_response, Advance(now, d),
                        poll_geohaz_job_batch_step(workflow_response, Advance(now, d)),
                        job_id)

\* the submission request of execute_workflow and what follows its response
execute_workflow ==
    /\ op = "execute_workflow"
    /\ pc = "submit"
    /\ \E resp \in SubmitResponses, d \in Durations :
          LET out == execute_workflow_submitted(resp)
          IN  /\ now' = now + d
              /\ start' = now + d
              /\ response' = resp
              /\ submits' = submits + 1
              /\ pc' = out.pc
              /\ raised' = out.raised
              /\ result' = IF out.pc = "returned" THEN out.result ELSE NotSet
              /\ handle' = IF out.pc = "fetch" THEN out.result ELSE handle
    /\ UNCHANGED <<op, interval, timeout, all_items, offset, all_completed, seen,
                   tick_log, page_log, targets, sleeps, args, world, calls,
                   client, running, frames>>

Next ==
    \/ Call
    \/ Sleep
    \/ poll_workflow_to_completion
    \/ poll_workflow
    \/ poll_geohaz_job_to_completion
    \/ poll_workflow_batch_to_completion
    \/ poll_import_job_batch_to_completion
    \/ poll_geohaz_job_batch_to_completion
    \/ execute_workflow

Spec == Init /\ [][Next]_vars

\* The calling thread keeps running: a call that can take a step takes one.
FairSpec == Spec /\ WF_vars(Next)

----------------------------------------------------------------------------
(* Two single-handle pollers that run concurrently on one Client, each in a *)
(* thread of its own.  The variables of a poller are the locals of its      *)
(* call, so each thread has its own; the variables of the model hold those  *)
(* of the thread that is running and frames those of the other one.  The    *)
(* threads wait concurrently: the latencies and sleeps of one take no time  *)
(* from the other, so `now` is the clock as the running thread reads it.    *)

Threads == {1, 2}
\* longest list of answers the server has ready for the status GETs of a handle
MaxAnswers == 2

\* `if full_url: url = full_url else: url = f"{self.base_url}/{path.lstrip('/')}"`
request_url(c, path, full_url) ==
    IF full_url # "" THEN full_url ELSE c.base_url \o "/" \o path

\* self.headers | headers: a new dict, in which the headers given win
request_headers(c, headers) ==
    [k \in DOMAIN c.headers \cup DOMAIN headers |->
        IF k \in DOMAIN headers THEN headers[k] ELSE c.headers[k]]

\* Client.request: what it hands to the session, and the Client after it
client_request(c, method, path, full_url) ==
    [client |-> c,
     sent |-> [method |-> method, url |-> request_url(c, path, full_url),
               headers |-> request_headers(c, <<>>), timeout |-> c.timeout]]

\* the status GET of each single-handle poller
status_request(c, o, h) ==
    CASE o = "poll_workflow" -> client_request(c, "GET", "", h)
      [] o = "poll_workflow_to_completion" ->
            client_request(c, "GET", "workflows/" \o ToString(h), "")
      [] OTHER -> client_request(c, "GET", "geohaz/jobs/" \o ToString(h), "")

\* the loop body of the poller that runs, once the body was fetched at time t
SingleTickOf(body, t) ==
    CASE op = "poll_workflow" -> poll_workflow_tick(body, t)
      [] op = "poll_workflow_to_completion" -> poll_workflow_to_completion_tick(body, t)
      [] OTHER -> poll_geohaz_job_to_completion_tick(body, t)

\* what the server answers to a status GET, and how long it takes to
Running == [status |-> "RUNNING", progress |-> 50]
Finished == [status |-> "FINISHED", progress |-> 100]
Answers ==
    {[body |-> Running, d |-> d] : d \in Durations}
        \cup {[body |-> Finished, d |-> 0], [body |-> [progress |-> 50], d |-> 0]}
\* the answers to the successive GETs for one handle; the last one is repeated
\* (the handle of the second thread has one answer, repeated)
Scripts == UNION {[1..n -> Answers] : n \in 1..MaxAnswers}

\* the two calls: different operations, handles, intervals and timeouts
PairArgs ==
    {<<[op |-> o1, handle |-> IF o1 = "poll_workflow" THEN WorkflowUrl ELSE 42,
        interval |-> 1, timeout |-> t1],
       [op |-> o2, handle |-> 7, interval |-> MaxInterval, timeout |-> MaxTimeout]>> :
        o1 \in {"poll_workflow", "poll_workflow_to_completion"},
        o2 \in {"poll_workflow_to_completion", "poll_geohaz_job_to_completion"},
        t1 \in 1..MaxTimeout}

UrlOf(a) == status_request(Client, a.op, a.handle).sent.url

\* the locals of a call that has not started
FrameOf(a) ==
    [op |-> a.op, handle |-> a.handle, interval |-> a.interval,
     timeout |-> a.timeout, pc |-> "start", start |-> 0, now |-> 0, seen |-> <<>>,
     targets |-> {}, sleeps |-> 0, result |-> NotSet, raised |-> NotSet]

\* the locals of the thread that runs
Frame ==
    [op |-> op, handle |-> handle, interval |-> interval, timeout |-> timeout,
     pc |-> pc, start |-> start, now |-> now, seen |-> seen, targets |-> targets,
     sleeps |-> sleeps, result |-> result, raised |-> raised]

PairInit ==
    /\ args \in PairArgs
    /\ world \in {[script |-> f, pending |-> f] :
                    f \in {(UrlOf(args[1]) :> s1) @@ (UrlOf(args[2]) :> <<a2>>) :
                              s1 \in Scripts, a2 \in Answers}}
    /\ client = Client
    /\ running = 1
    /\ frames = [t \in Threads |-> FrameOf(args[t])]
    /\ op = args[1].op
    /\ handle = args[1].handle
    /\ interval = args[1].interval
    /\ timeout = args[1].timeout
    /\ pc = "start"
    /\ start = 0
    /\ now = 0
    /\ seen = <<>>
    /\ targets = {}
    /\ sleeps = 0
    /\ result = NotSet
    /\ raised = NotSet
    /\ response = NotSet
    /\ all_items = <<>>
    /\ offset = 0
    /\ all_completed = FALSE
    /\ tick_log = <<>>
    /\ page_log = NoPages
    /\ submits = 0
    /\ calls = <<>>

\* one tick of the poller that runs: its status GET through the shared Client,
\* answered by the server with what it has for the URL asked, and the loop body
PollerTick ==
    /\ op \in SingleOps
    /\ pc = "fetch"
    /\ frames # NotSet
    /\ LET made == status_request(client, op, handle)
           url == made.sent.url
       IN  /\ client' = made.client
           /\ IF url \notin DOMAIN world.pending
              THEN /\ Finish(Raise("IRPAPIError", "HTTP request failed"))
                   /\ UNCHANGED <<now, seen, world>>
              ELSE LET answer == Head(world.pending[url])
                       t == Advance(now, answer.d)
                   IN  /\ now' = t
                       /\ seen' = Append(seen, answer.body)
                       /\ Finish(SingleTickOf(answer.body, t))
                       /\ world' = [world EXCEPT !.pending[url] =
                                        IF Len(@) > 1 THEN Tail(@) ELSE @]
    /\ targets' = targets \cup {handle}
    /\ UNCHANGED <<op, handle, interval, timeout, start, response, all_items,
                   offset, all_completed, tick_log, page_log, submits, sleeps,
                   args, calls, running, frames>>

\* a variant in which the handle is kept on the Client and not in a local
Switch_handle_on_client ==
    /\ frames # NotSet
    /\ running' = 3 - running
    /\ frames' = [frames EXCEPT ![running] = Frame]
    /\ op' = frames[3 - running].op
    /\ interval' = frames[3 - running].interval
    /\ timeout' = frames[3 - running].timeout
    /\ pc' = frames[3 - running].pc
    /\ start' = frames[3 - running].start
    /\ now' = frames[3 - running].now
    /\ seen' = frames[3 - running].seen
    /\ targets' = frames[3 - running].targets
    /\ sleeps' = frames[3 - running].sleeps
    /\ result' = frames[3 - running].result
    /\ raised' = frames[3 - running].raised
    /\ UNCHANGED <<handle, response, all_items, offset, all_completed, tick_log,
                   page_log, submits, args, world, calls, client>>

\* the scheduler lets the other thread run: every variable of a poller is a
\* local of its call and goes with its thread; the Client stays
Switch ==
    /\ frames # NotSet
    /\ running' = 3 - running
    /\ frames' = [frames EXCEPT ![running] = Frame]
    /\ op' = frames[3 - running].op
    /\ handle' = frames[3 - running].handle
    /\ interval' = frames[3 - running].interval
    /\ timeout' = frames[3 - running].timeout
    /\ pc' = frames[3 - running].pc
    /\ start' = frames[3 - running].start
    /\ now' = frames[3 - running].now
    /\ seen' = frames[3 - running].seen
    /\ targets' = frames[3 - running].targets
    /\ sleeps' = frames[3 - running].sleeps
    /\ result' = frames[3 - running].result
    /\ raised' = frames[3 - running].raised
    /\ UNCHANGED <<response, all_items, offset, all_completed, tick_log, page_log,
                   submits, args, world, calls, client>>

PairNext ==
    \/ Call
    \/ Sleep
    \/ PollerTick
    \/ Switch

PairSpec == PairInit /\ [][PairNext]_vars

----------------------------------------------------------------------------
(* Helper functions of utils.py and of the MRI import manager *)

MaxMatches == 2
MaxHeaders == 2
MaxItems == 2

\* the sequences over S of length at most n
SeqsUpTo(S, n) == UNION {[1..k -> S] : k \in 0..n}

\* str.upper() on the strings used as headers and mapping sources
upper(s) ==
    CASE s \in {"zip", "Zip", "ZIP"} -> "ZIP"
      [] s \in {"city", "CITY"} -> "CITY"
      [] OTHER -> s

\* base64.b64decode(value).decode("utf-8") on the values met here; a value
\* outside the table ("QUtJQ": incorrect padding, "/w==": not UTF-8) raises
Base64Utf8 ==
    "QUtJQQ==" :> "AKIA" @@ "c2VjcmV0" :> "secret" @@ "dG9rZW4=" :> "token"
        @@ "YnVja2V0L3ByZWZpeA==" :> "bucket/prefix" @@ "dXMtZWFzdC0x" :> "us-east-1"

\* ", ".join(fields)
RECURSIVE join(_)
join(fields) ==
    IF fields = <<>> THEN ""
    ELSE IF Len(fields) = 1 THEN fields[1]
    ELSE fields[1] \o ", " \o join(Tail(fields))

\* an outcome together with the calls made on the way to it
Done(out, log) ==
    [pc |-> out.pc, result |-> out.result, raised |-> out.raised, calls |-> log]

decode_base64_field(encoded_value, field_name) ==
    IF encoded_value \in DOMAIN Base64Utf8
    THEN Return(Base64Utf8[encoded_value])
    ELSE Raise("IRPAPIError", field_name)

\* the dict literal of the two credential decoders: the fields are decoded in
\* the order written, and the first failure ends the decoding
DecodeFields(payload, required_fields, keys) ==
    LET n == Len(required_fields)
        decoded(i) == decode_base64_field(payload[required_fields[i]],
                                          required_fields[i])
        failed == {i \in 1..n : decoded(i).pc = "raised"}
        first == IF failed = {} THEN n
                 ELSE CHOOSE i \in failed : \A j \in failed : i <= j
        log == [i \in 1..first |-> "decode_base64_field " \o required_fields[i]]
    IN  IF failed # {}
        THEN Done(decoded(first), log)
        ELSE Done(Return([k \in {keys[i] : i \in 1..n} |->
                            decoded(CHOOSE i \in 1..n : keys[i] = k).result]), log)

CredentialKeys ==
    <<"aws_access_key_id", "aws_secret_access_key", "aws_session_token",
      "s3_path", "s3_region">>

\* a variant that decodes what is there before it reports what is missing
decode_mri_credentials_decode_first(response_json) ==
    LET required_fields ==
            <<"accessKeyId", "secretAccessKey", "sessionToken", "s3Path", "s3Region">>
        present == SelectSeq(required_fields, LAMBDA f : f \in DOMAIN response_json)
        missing == SelectSeq(required_fields, LAMBDA f : f \notin DOMAIN response_json)
        some == DecodeFields(response_json, present, present)
    IN  IF missing # <<>>
        THEN Done(Raise("IRPAPIError", "missing fields: " \o join(missing)), some.calls)
        ELSE DecodeFields(response_json, required_fields, CredentialKeys)

decode_mri_credentials(response_json) ==
    LET required_fields ==
            <<"accessKeyId", "secretAccessKey", "sessionToken", "s3Path", "s3Region">>
        missing == SelectSeq(required_fields, LAMBDA f : f \notin DOMAIN response_json)
    IN  IF missing # <<>>
        THEN Done(Raise("IRPAPIError", "missing fields: " \o join(missing)), <<>>)
        ELSE DecodeFields(response_json, required_fields, CredentialKeys)

decode_presign_params(presign_params) ==
    LET required_fields ==
            <<"accessKeyId", "secretAccessKey", "sessionToken", "path", "region">>
        missing == SelectSeq(required_fields, LAMBDA f : f \notin DOMAIN presign_params)
    IN  IF missing # <<>>
        THEN Done(Raise("IRPAPIError", "missing fields: " \o join(missing)), <<>>)
        ELSE DecodeFields(presign_params, required_fields, CredentialKeys)

\* "/".join(parts)
RECURSIVE slash_join(_)
slash_join(parts) ==
    IF Len(parts) = 1 THEN parts[1]
    ELSE parts[1] \o "/" \o slash_join(Tail(parts))

\* the Location values met here, each as the pieces between its "/"
LocationParts ==
    {<<"">>, <<" ">>, <<"5">>,
     <<"https:", "", "host", "buckets", "5">>,
     <<"https:", "", "host", "buckets", "abc">>,
     <<"https:", "", "host", "files", "11">>,
     <<"https:", "", "host", "workflows", "42">>,
     <<"https:", "", "host", "jobs", "">>}

\* location.split('/'): the pieces whose "/".join is the value
split(location) == CHOOSE parts \in LocationParts : slash_join(parts) = location

\* a variant that takes the piece after the first "/" for the identifier
LastSegment_second(location) ==
    LET parts == split(location)
    IN  IF Len(parts) > 1 THEN parts[2] ELSE parts[1]

\* location.split('/')[-1]
LastSegment(location) == split(location)[Len(split(location))]

extract_id_from_location_header(resp) ==
    LET location == get_location_header(resp)
    IN  IF location.pc = "raised" THEN location
        ELSE IF LastSegment(location.result) = ""
        THEN Raise("IRPAPIError", "Could not extract ID from Location header")
        ELSE Return(LastSegment(location.result))

find_reference_data_by_name(data_list, target_name) ==
    LET matching == {i \in 1..Len(data_list) :
                        get(data_list[i], "name", "") = target_name}
    IN  IF data_list = <<>>
        THEN Raise("IRPReferenceDataError", "No reference data available to search")
        ELSE IF matching = {}
        THEN Raise("IRPReferenceDataError", "not found")
        \* next(...): the first item that matches
        ELSE Return(data_list[CHOOSE i \in matching : \A j \in matching : i <= j])

\* a variant that compares the header with the sources as they are written
_add_missing_sources_case_sensitive(headers, items) ==
    LET existing_sources == {items[i].source : i \in 1..Len(items)}
        missing == SelectSeq(headers, LAMBDA header : header \notin existing_sources)
        added == [i \in 1..Len(missing) |->
                    [source |-> upper(missing[i]), destination |-> upper(missing[i])]]
    IN  [items |-> items \o added, modified |-> added # <<>>]

\* items is changed in place: the record holds the list after the call and the
\* value returned
_add_missing_sources(headers, items) ==
    LET existing_sources_upper == {upper(items[i].source) : i \in 1..Len(items)}
        missing == SelectSeq(headers,
                             LAMBDA header : upper(header) \notin existing_sources_upper)
        added == [i \in 1..Len(missing) |->
                    [source |-> upper(missing[i]), destination |-> upper(missing[i])]]
    IN  [items |-> items \o added, modified |-> added # <<>>]

\* a variant that adds the missing sources and never writes the mapping back
_sync_mapping_with_csv_headers_not_saved(files) ==
    [files |-> files, calls |-> <<"json.load mapping">>]

\* files: the mapping file (parsed) and the header rows of the two data files.
\* mapping.get(key, []) hands out the list of the mapping when the key is
\* there, and a list of its own when it is not.
_sync_mapping_with_csv_headers(files) ==
    LET mapping == files.mapping
        account_items == _add_missing_sources(files.accounts,
                                              get(mapping, "accountItems", <<>>))
        location_items == _add_missing_sources(files.locations,
                                               get(mapping, "locationItems", <<>>))
        modified == account_items.modified \/ location_items.modified
        after == [k \in DOMAIN mapping |->
                    IF k = "accountItems" THEN account_items.items
                    ELSE IF k = "locationItems" THEN location_items.items
                    ELSE mapping[k]]
    IN  [files |-> IF modified THEN [files EXCEPT !.mapping = after] ELSE files,
         calls |-> IF modified THEN <<"json.load mapping", "json.dump mapping">>
                   ELSE <<"json.load mapping">>]

----------------------------------------------------------------------------
(* Resource-manager operations: inputs and server answers *)

MaxAccounts == 2
\* longest list of result sets of a SQL script
MaxResultSets == 2

ManagerOps ==
    {"get_file_credentials", "submit_import_job", "submit_mri_import_job",
     "create_portfolio", "submit_geohaz_job", "execute_portfolio_mapping"}
HelperOps ==
    {"find_reference_data_by_name", "decode_mri_credentials", "decode_presign_params",
     "_add_missing_sources", "_sync_mapping_with_csv_headers",
     "extract_id_from_location_header"}
ClientOps == {"request"}
\* the operations over a list of entries
BulkOps == {"create_portfolios", "submit_geohaz_jobs"}
\* longest list of entries given to such an operation
MaxEntries == 2

\* the calls that are HTTP requests
HttpCalls ==
    {"GET SEARCH_EDMS", "GET SEARCH_PORTFOLIOS", "GET SEARCH_ACCOUNTS_BY_PORTFOLIO",
     "POST GEOHAZ_PORTFOLIO", "POST CREATE_PORTFOLIO", "POST CREATE_AWS_BUCKET",
     "POST path", "POST CREATE_MAPPING", "POST EXECUTE_IMPORT"}

\* names as arguments: " " stands for any string of whitespace only
Names == {"", " ", "name"}

\* search results: n items that match the name searched for
Edm(i) == [exposureId |-> 6 + i, databaseName |-> "EDM_db", exposureName |-> "name"]
Portfolio(i) ==
    [portfolioId |-> 20 + i, uri |-> "/portfolios/2x", portfolioName |-> "name"]

EdmResults ==
    {[i \in 1..n |-> Edm(i)] : n \in 0..MaxMatches}
        \cup {<<[exposureName |-> "name"]>>,
              <<[exposureId |-> 0, databaseName |-> "EDM_db", exposureName |-> "name"]>>}
PortfolioResults ==
    {[i \in 1..n |-> Portfolio(i)] : n \in 0..MaxMatches}
        \cup {<<[portfolioName |-> "name"]>>}

Accounts ==
    {[accountId |-> 1, locationsCount |-> 0], [accountId |-> 2, locationsCount |-> 3],
     [accountId |-> 3]}
AccountResults == SeqsUpTo(Accounts, MaxAccounts)

\* responses to a submission: with or without the Location of what was made
Created(location) == [status_code |-> 201, headers |-> [location |-> location]]
NoLocation == [status_code |-> 201, headers |-> <<>>]

\* int(str)
int(s) ==
    CASE s = "5" -> Return(5)
      [] s = "11" -> Return(11)
      [] s = "42" -> Return(42)
      [] OTHER -> Raise("ValueError", s)

\* a step that failed ends the operation; one that succeeded hands its value on
Failed(step) == step.pc = "raised"

\* the first argument named in checks that does not pass its validation
FirstRejected(checks) ==
    LET bad == {i \in 1..Len(checks) : ~checks[i].ok}
    IN  IF bad = {} THEN ""
        ELSE checks[CHOOSE i \in bad : \A j \in bad : i <= j].name

NonEmptyString(a, name) == [ok |-> validate_non_empty_string(a[name]), name |-> name]
PositiveInt(a, name) == [ok |-> validate_positive_int(a[name]), name |-> name]

\* EDMManager.search_edms(filter): one search request, answered with a list
\* or failing with an API error
search_edms(w, log) ==
    IF w.failing = "search_edms"
    THEN Done(Raise("IRPAPIError", "Failed to search EDMs"),
              Append(log, "GET SEARCH_EDMS"))
    ELSE Done(Return(w.edms), Append(log, "GET SEARCH_EDMS"))

search_portfolios(exposure_id, w, log) ==
    IF ~validate_positive_int(exposure_id)
    THEN Done(Raise("IRPValidationError", "exposure_id"), log)
    ELSE IF w.failing = "search_portfolios"
    THEN Done(Raise("IRPAPIError", "Failed to search portfolios"),
              Append(log, "GET SEARCH_PORTFOLIOS"))
    ELSE Done(Return(w.portfolios), Append(log, "GET SEARCH_PORTFOLIOS"))

search_accounts_by_portfolio(exposure_id, portfolio_id, w, log) ==
    IF ~validate_positive_int(exposure_id)
    THEN Done(Raise("IRPValidationError", "exposure_id"), log)
    ELSE IF ~validate_positive_int(portfolio_id)
    THEN Done(Raise("IRPValidationError", "portfolio_id"), log)
    ELSE Done(Return(w.accounts), Append(log, "GET SEARCH_ACCOUNTS_BY_PORTFOLIO"))

\* `if len(edms) != 1: raise`, then the extraction of the fields in keys
ExpectOne(found, what, keys) ==
    IF Len(found) # 1
    THEN Raise("IRPAPIError", "Expected 1 " \o what \o ", found " \o ToString(Len(found)))
    ELSE IF ~(keys \subseteq DOMAIN found[1])
    THEN Raise("IRPAPIError", "Failed to extract " \o what \o " details")
    ELSE Return(found[1])

----------------------------------------------------------------------------
(* Portfolio manager operations: each operator is the whole call, from its  *)
(* arguments a and the answers w it meets to its outcome and calls          *)

\* the loop `for account in accounts` of submit_geohaz_job, from account i on
RECURSIVE LocationsCount(_, _, _)
LocationsCount(accounts, i, locations_count) ==
    IF i > Len(accounts) THEN Return(locations_count)
    ELSE IF "locationsCount" \notin DOMAIN accounts[i]
    THEN Raise("IRPAPIError", "Failed to validate locations count")
    ELSE LET count == locations_count + accounts[i].locationsCount
         IN  IF count > 0 THEN Return(count)
             ELSE LocationsCount(accounts, i + 1, count)

\* the submission POST and what is made of its response
SubmitAndExtract(endpoint, answer, data, failure, log) ==
    LET posted == Append(log, "POST " \o endpoint)
        id == extract_id_from_location_header(answer)
        number == IF Failed(id) THEN id ELSE int(id.result)
    IN  IF Failed(number)
        THEN Done(Raise("IRPAPIError", failure), posted)
        ELSE Done(Return(<<number.result, data>>), posted)

\* a variant that submits before it has looked at the accounts
submit_geohaz_job_unchecked(a, w) ==
    LET rejected == FirstRejected(<<NonEmptyString(a, "portfolio_name"),
                                    NonEmptyString(a, "edm_name")>>)
        edms == search_edms(w, <<>>)
        edm == ExpectOne(edms.result, "EDM", {"exposureId"})
        portfolios == search_portfolios(edm.result.exposureId, w, edms.calls)
        portfolio == ExpectOne(portfolios.result, "portfolio", {"uri", "portfolioId"})
    IN  IF rejected # "" THEN Done(Raise("IRPValidationError", rejected), <<>>)
        ELSE IF Failed(edms) THEN edms
        ELSE IF Failed(edm) THEN Done(edm, edms.calls)
        ELSE IF Failed(portfolios) THEN portfolios
        ELSE IF Failed(portfolio) THEN Done(portfolio, portfolios.calls)
        ELSE SubmitAndExtract("GEOHAZ_PORTFOLIO", w.submitted,
                              [resourceUri |-> portfolio.result.uri],
                              "Failed to execute geohaz", portfolios.calls)

submit_geohaz_job(a, w) ==
    LET rejected == FirstRejected(<<NonEmptyString(a, "portfolio_name"),
                                    NonEmptyString(a, "edm_name")>>)
        edms == search_edms(w, <<>>)
        edm == ExpectOne(edms.result, "EDM", {"exposureId"})
        portfolios == search_portfolios(edm.result.exposureId, w, edms.calls)
        portfolio == ExpectOne(portfolios.result, "portfolio", {"uri", "portfolioId"})
        accounts == search_accounts_by_portfolio(edm.result.exposureId,
                        portfolio.result.portfolioId, w, portfolios.calls)
        locations_count == LocationsCount(accounts.result, 1, 0)
    IN  IF rejected # "" THEN Done(Raise("IRPValidationError", rejected), <<>>)
        ELSE IF Failed(edms) THEN edms
        ELSE IF Failed(edm) THEN Done(edm, edms.calls)
        ELSE IF Failed(portfolios) THEN portfolios
        ELSE IF Failed(portfolio) THEN Done(portfolio, portfolios.calls)
        ELSE IF Failed(accounts) THEN accounts
        ELSE IF Len(accounts.result) = 0
        THEN Done(Raise("IRPAPIError", "does not have any Accounts/Locations"),
                  accounts.calls)
        ELSE IF Failed(locations_count) THEN Done(locations_count, accounts.calls)
        ELSE IF locations_count.result = 0
        THEN Done(Raise("IRPAPIError", "has accounts but no locations"), accounts.calls)
        ELSE SubmitAndExtract("GEOHAZ_PORTFOLIO", w.submitted,
                              [resourceUri |-> portfolio.result.uri],
                              "Failed to execute geohaz", accounts.calls)

\* a variant that does not look for portfolios of the same name
create_portfolio_unchecked(a, w) ==
    LET rejected == FirstRejected(<<NonEmptyString(a, "edm_name"),
                                    NonEmptyString(a, "portfolio_name"),
                                    NonEmptyString(a, "portfolio_number")>>)
        edms == search_edms(w, <<>>)
        edm == ExpectOne(edms.result, "EDM", {"exposureId"})
    IN  IF rejected # "" THEN Done(Raise("IRPValidationError", rejected), <<>>)
        ELSE IF Failed(edms) THEN edms
        ELSE IF Failed(edm) THEN Done(edm, edms.calls)
        ELSE SubmitAndExtract("CREATE_PORTFOLIO", w.submitted,
                              [portfolioName |-> a.portfolio_name],
                              "Failed to create portfolio", edms.calls)

create_portfolio(a, w) ==
    LET rejected == FirstRejected(<<NonEmptyString(a, "edm_name"),
                                    NonEmptyString(a, "portfolio_name"),
                                    NonEmptyString(a, "portfolio_number")>>)
        edms == search_edms(w, <<>>)
        edm == ExpectOne(edms.result, "EDM", {"exposureId"})
        portfolios == search_portfolios(edm.result.exposureId, w, edms.calls)
    IN  IF rejected # "" THEN Done(Raise("IRPValidationError", rejected), <<>>)
        ELSE IF Failed(edms) THEN edms
        ELSE IF Failed(edm) THEN Done(edm, edms.calls)
        ELSE IF Failed(portfolios) THEN portfolios
        ELSE IF Len(portfolios.result) > 0
        THEN Done(Raise("IRPAPIError", ToString(Len(portfolios.result))
                            \o " portfolios found, please use a unique name"),
                  portfolios.calls)
        ELSE SubmitAndExtract("CREATE_PORTFOLIO", w.submitted,
                              [portfolioName |-> a.portfolio_name],
                              "Failed to create portfolio", portfolios.calls)

\* the list operations: the keys read from an entry, and the call made for it
EntryKeys(o) ==
    IF o = "create_portfolios"
    THEN {"edm_name", "portfolio_name", "portfolio_number", "description"}
    ELSE {"edm_name", "portfolio_name", "version", "hazard_eq", "hazard_ws"}

MissingValue(o) ==
    IF o = "create_portfolios" THEN "Missing value in create portfolio data"
    ELSE "Missing geohaz job data"

SubmitOne(o, entry, w) ==
    IF o = "create_portfolios" THEN create_portfolio(entry, w)
    ELSE submit_geohaz_job(entry, w)

\* a variant that goes on to the next entry when one has failed
RECURSIVE SubmitEach_skips_failed(_, _, _, _, _, _)
SubmitEach_skips_failed(o, data_list, ws, i, ids, log) ==
    IF i > Len(data_list) THEN Done(Return(ids), log)
    ELSE IF ~(EntryKeys(o) \subseteq DOMAIN data_list[i])
    THEN SubmitEach_skips_failed(o, data_list, ws, i + 1, ids, log)
    ELSE LET one == SubmitOne(o, data_list[i], ws[i])
         IN  SubmitEach_skips_failed(o, data_list, ws, i + 1,
                 IF Failed(one) THEN ids ELSE Append(ids, one.result[1]),
                 log \o one.calls)

\* the loop `for portfolio_data in portfolio_data_list` (and the one over
\* geohaz_data_list), from entry i on; ws[i] is what the server answers to
\* the call made for entry i
RECURSIVE SubmitEach(_, _, _, _, _, _)
SubmitEach(o, data_list, ws, i, ids, log) ==
    IF i > Len(data_list) THEN Done(Return(ids), log)
    ELSE IF ~(EntryKeys(o) \subseteq DOMAIN data_list[i])
    THEN Done(Raise("IRPAPIError", MissingValue(o)), log)
    ELSE LET one == SubmitOne(o, data_list[i], ws[i])
         IN  IF Failed(one) THEN Done(one, log \o one.calls)
             ELSE SubmitEach(o, data_list, ws, i + 1, Append(ids, one.result[1]),
                             log \o one.calls)

create_portfolios(a, w) ==
    IF ~validate_list_not_empty(a.portfolio_data_list)
    THEN Done(Raise("IRPValidationError", "portfolio_data_list"), <<>>)
    ELSE SubmitEach("create_portfolios", a.portfolio_data_list, w.answers, 1, <<>>, <<>>)

submit_geohaz_jobs(a, w) ==
    IF ~validate_list_not_empty(a.geohaz_data_list)
    THEN Done(Raise("IRPValidationError", "geohaz_data_list"), <<>>)
    ELSE SubmitEach("submit_geohaz_jobs", a.geohaz_data_list, w.answers, 1, <<>>, <<>>)

\* a variant for which a script that is not there is an error
ExecuteScript_required(w, edm_full_name, portfolio_id, log) ==
    LET executed == Append(log, "execute_query_from_file")
    IN  IF ~w.sql_file_exists
        THEN Done(Raise("IRPAPIError", "SQL script not found"), log)
        ELSE IF ~w.sql_runs
        THEN Done(Raise("IRPAPIError", "Failed to execute portfolio mapping"), executed)
        ELSE Done(Return([status |-> "FINISHED",
                          result_sets_count |-> Len(w.result_sets),
                          sql_script |-> [status |-> "EXECUTED"],
                          parameters |-> [EDM_FULL_NAME |-> edm_full_name,
                                          PORTFOLIO_ID |-> portfolio_id]]),
                  executed)

\* execute_portfolio_mapping once the EDM and the portfolio are known: the
\* check that the script is there, then its execution.  result_sets is the
\* list that execute_query_from_file returns.
ExecuteScript(w, edm_full_name, portfolio_id, log) ==
    LET executed == Append(log, "execute_query_from_file")
    IN  IF ~w.sql_file_exists
        THEN Done(Return([status |-> "SKIPPED",
                          sql_script |-> [status |-> "NOT_FOUND"]]), log)
        ELSE IF ~w.sql_runs
        THEN Done(Raise("IRPAPIError", "Failed to execute portfolio mapping"), executed)
        ELSE Done(Return([status |-> "FINISHED",
                          \* len(result_sets) if result_sets else 0
                          result_sets_count |-> IF w.result_sets = <<>> THEN 0
                                                ELSE Len(w.result_sets),
                          sql_script |-> [status |-> "EXECUTED"],
                          parameters |-> [EDM_FULL_NAME |-> edm_full_name,
                                          PORTFOLIO_ID |-> portfolio_id]]),
                  executed)

\* a variant that takes the first of the portfolios found
execute_portfolio_mapping_first_match(a, w) ==
    LET rejected == FirstRejected(<<NonEmptyString(a, "portfolio_name"),
                                    NonEmptyString(a, "edm_name"),
                                    NonEmptyString(a, "import_file"),
                                    NonEmptyString(a, "cycle_type")>>)
        edms == search_edms(w, <<>>)
        edm == ExpectOne(edms.result, "EDM", {"exposureId", "databaseName"})
        portfolios == search_portfolios(edm.result.exposureId, w, edms.calls)
        portfolio == ExpectOne(IF portfolios.result = <<>> THEN <<>>
                               ELSE <<Head(portfolios.result)>>,
                               "portfolio", {"portfolioId"})
    IN  IF rejected # "" THEN Done(Raise("IRPValidationError", rejected), <<>>)
        ELSE IF ~w.cycle_type_directory
        THEN Done(Raise("IRPValidationError", "cycle_type"), <<>>)
        ELSE IF Failed(edms) THEN edms
        ELSE IF Failed(edm) THEN Done(edm, edms.calls)
        ELSE IF Failed(portfolios) THEN portfolios
        ELSE IF Failed(portfolio) THEN Done(portfolio, portfolios.calls)
        ELSE ExecuteScript(w, edm.result.databaseName, portfolio.result.portfolioId,
                           portfolios.calls)

execute_portfolio_mapping(a, w) ==
    LET rejected == FirstRejected(<<NonEmptyString(a, "portfolio_name"),
                                    NonEmptyString(a, "edm_name"),
                                    NonEmptyString(a, "import_file"),
                                    NonEmptyString(a, "cycle_type")>>)
        edms == search_edms(w, <<>>)
        edm == ExpectOne(edms.result, "EDM", {"exposureId", "databaseName"})
        portfolios == search_portfolios(edm.result.exposureId, w, edms.calls)
        portfolio == ExpectOne(portfolios.result, "portfolio", {"portfolioId"})
    IN  IF rejected # "" THEN Done(Raise("IRPValidationError", rejected), <<>>)
        \* resolve_cycle_type_directory
        ELSE IF ~w.cycle_type_directory
        THEN Done(Raise("IRPValidationError", "cycle_type"), <<>>)
        ELSE IF Failed(edms) THEN edms
        ELSE IF Failed(edm) THEN Done(edm, edms.calls)
        ELSE IF Failed(portfolios) THEN portfolios
        ELSE IF Failed(portfolio) THEN Done(portfolio, portfolios.calls)
        ELSE ExecuteScript(w, edm.result.databaseName, portfolio.result.portfolioId,
                           portfolios.calls)

----------------------------------------------------------------------------
(* MRI import manager operations *)

\* a variant that returns the decoded credentials alone
get_file_credentials_decoded_only(a, answer, log) ==
    LET rejected == FirstRejected(<<NonEmptyString(a, "bucket_url"),
                                    NonEmptyString(a, "filename"),
                                    PositiveInt(a, "filesize"),
                                    NonEmptyString(a, "file_type")>>)
        posted == Append(log, "POST path")
        file_id == extract_id_from_location_header(answer)
        decoded_creds == decode_mri_credentials(answer.body.value)
    IN  IF rejected # "" THEN Done(Raise("IRPValidationError", rejected), log)
        ELSE IF answer.body.kind = "invalid"
        THEN Done(Raise("IRPAPIError", "Failed to get file credentials"), posted)
        ELSE IF Failed(file_id) THEN Done(file_id, posted)
        ELSE IF answer.body.kind = "null"
        THEN Done(Raise("TypeError", "argument of type 'NoneType' is not iterable"),
                  posted)
        ELSE IF Failed(decoded_creds)
        THEN Done(decoded_creds, posted \o decoded_creds.calls)
        ELSE Done(Return(decoded_creds.result), posted \o decoded_creds.calls)

\* answer: the response to the credentials request, its body being a JSON
\* object, the JSON value null, or no JSON at all
get_file_credentials(a, answer, log) ==
    LET rejected == FirstRejected(<<NonEmptyString(a, "bucket_url"),
                                    NonEmptyString(a, "filename"),
                                    PositiveInt(a, "filesize"),
                                    NonEmptyString(a, "file_type")>>)
        posted == Append(log, "POST path")
        file_id == extract_id_from_location_header(answer)
        decoded_creds == decode_mri_credentials(answer.body.value)
    IN  IF rejected # "" THEN Done(Raise("IRPValidationError", rejected), log)
        ELSE IF answer.body.kind = "invalid"
        THEN Done(Raise("IRPAPIError", "Failed to get file credentials"), posted)
        ELSE IF Failed(file_id) THEN Done(file_id, posted)
        \* `f not in response_json` when response_json is None
        ELSE IF answer.body.kind = "null"
        THEN Done(Raise("TypeError", "argument of type 'NoneType' is not iterable"),
                  posted)
        ELSE IF Failed(decoded_creds)
        THEN Done(decoded_creds, posted \o decoded_creds.calls)
        ELSE Done(Return(("filename" :> a.filename @@ "file_id" :> file_id.result)
                            @@ decoded_creds.result),
                  posted \o decoded_creds.calls)

submit_import_job(a, answer, log) ==
    LET rejected == FirstRejected(<<NonEmptyString(a, "edm_name"),
                                    PositiveInt(a, "portfolio_id"),
                                    PositiveInt(a, "bucket_id"),
                                    PositiveInt(a, "accounts_file_id"),
                                    PositiveInt(a, "locations_file_id"),
                                    PositiveInt(a, "mapping_file_id")>>)
    IN  IF rejected # "" THEN Done(Raise("IRPValidationError", rejected), log)
        ELSE SubmitAndExtract("EXECUTE_IMPORT", answer,
                              [importType |-> "MRI", bucketId |-> a.bucket_id,
                               portfolioId |-> a.portfolio_id],
                              "Failed to submit MRI import", log)

\* the portfolio lookup of submit_mri_import_job
PortfolioByName(portfolios) ==
    IF Len(portfolios) = 0 THEN Raise("IRPAPIError", "Portfolio not found")
    ELSE IF Len(portfolios) > 1
    THEN Raise("IRPAPIError", ToString(Len(portfolios))
                    \o " portfolios found, please use a unique name")
    ELSE IF "portfolioId" \notin DOMAIN portfolios[1]
    THEN Raise("IRPAPIError", "Failed to extract portfolio ID")
    ELSE Return(portfolios[1])

\* the answer to a credentials request that failed
RequestFailed == [headers |-> <<>>, body |-> [kind |-> "invalid"]]

create_aws_bucket(w, log) ==
    IF w.failing = "create_aws_bucket"
    THEN Done(Raise("IRPAPIError", "HTTP request failed"),
              Append(log, "POST CREATE_AWS_BUCKET"))
    ELSE Done(Return(w.bucket), Append(log, "POST CREATE_AWS_BUCKET"))

\* a variant that deletes the bucket when the upload fails
upload_file_to_s3_cleanup(credentials, w, step, log) ==
    LET required_fields == {"aws_access_key_id", "aws_secret_access_key",
                            "aws_session_token", "s3_region", "s3_path",
                            "file_id", "filename"}
    IN  IF ~(required_fields \subseteq DOMAIN credentials)
        THEN Done(Raise("IRPValidationError", "credentials"), log)
        ELSE IF w.failing = step
        THEN Done(Raise("IRPFileError", "Failed to upload file to S3"),
                  log \o <<"s3.upload_file", "DELETE bucket">>)
        ELSE Done(Return(NotSet), Append(log, "s3.upload_file"))

\* step names the upload: the one of the accounts or of the locations file
upload_file_to_s3(credentials, w, step, log) ==
    LET required_fields == {"aws_access_key_id", "aws_secret_access_key",
                            "aws_session_token", "s3_region", "s3_path",
                            "file_id", "filename"}
    IN  IF ~(required_fields \subseteq DOMAIN credentials)
        THEN Done(Raise("IRPValidationError", "credentials"), log)
        ELSE IF w.failing = step
        THEN Done(Raise("IRPFileError", "Failed to upload file to S3"),
                  Append(log, "s3.upload_file"))
        ELSE Done(Return(NotSet), Append(log, "s3.upload_file"))

\* an outcome together with the mapping the server was sent
Received(out, data) == out @@ [posted |-> data]

\* files: the local files as they are when the upload starts; the value is
\* the JSON body of the response
upload_mapping_file(files, bucket_id, w, log) ==
    LET data == files.mapping
    IN  IF ~validate_non_empty_string(bucket_id)
        THEN Done(Raise("IRPValidationError", "bucket_id"), log)
        ELSE IF w.failing = "upload_mapping_file"
        THEN Done(Raise("IRPAPIError", "Failed to upload mapping file"),
                  Append(log, "POST CREATE_MAPPING"))
        ELSE Received(Done(Return(w.mapping_file_id),
                           Append(log, "POST CREATE_MAPPING")), data)

\* submit_mri_import_job from the creation of the bucket on
\* get_file_size_kb(file_path): -1 for a file that is not there, else
\* int(file_size_bytes / 1024)
get_file_size_kb(w, name) ==
    IF name \in w.missing_files THEN -1 ELSE w.size_bytes[name] \div 1024

UploadAndSubmit(a, w, files, portfolio_id, log) ==
    LET bucket_response == create_aws_bucket(w, log)
        bucket_url == get_location_header(bucket_response.result)
        bucket_id == extract_id_from_location_header(bucket_response.result)
        accounts_credentials ==
            get_file_credentials([bucket_url |-> bucket_url.result,
                                  \* os.path.basename of a name without directory
                                  filename |-> a.accounts_file_name,
                                  filesize |-> get_file_size_kb(w, "accounts_file_name"),
                                  file_type |-> "account"],
                                 IF w.failing = "accounts_credentials"
                                 THEN RequestFailed ELSE w.accounts_credentials,
                                 bucket_response.calls)
        accounts_uploaded ==
            upload_file_to_s3(accounts_credentials.result, w, "accounts_upload",
                              accounts_credentials.calls)
        locations_credentials ==
            get_file_credentials([bucket_url |-> bucket_url.result,
                                  filename |-> a.locations_file_name,
                                  filesize |-> get_file_size_kb(w, "locations_file_name"),
                                  file_type |-> "location"],
                                 IF w.failing = "locations_credentials"
                                 THEN RequestFailed ELSE w.locations_credentials,
                                 accounts_uploaded.calls)
        locations_uploaded ==
            upload_file_to_s3(locations_credentials.result, w, "locations_upload",
                              locations_credentials.calls)
        mapping_response ==
            upload_mapping_file(files, bucket_id.result, w, locations_uploaded.calls)
        bucket_number == int(bucket_id.result)
        accounts_file_id == int(accounts_credentials.result.file_id)
        locations_file_id == int(locations_credentials.result.file_id)
    IN  IF Failed(bucket_response) THEN bucket_response
        ELSE IF Failed(bucket_url) THEN Done(bucket_url, bucket_response.calls)
        ELSE IF Failed(bucket_id) THEN Done(bucket_id, bucket_response.calls)
        ELSE IF Failed(accounts_credentials) THEN accounts_credentials
        ELSE IF Failed(accounts_uploaded) THEN accounts_uploaded
        ELSE IF Failed(locations_credentials) THEN locations_credentials
        ELSE IF Failed(locations_uploaded) THEN locations_uploaded
        ELSE IF Failed(mapping_response) THEN mapping_response
        ELSE Received(
            IF Failed(bucket_number) THEN Done(bucket_number, mapping_response.calls)
            ELSE IF Failed(accounts_file_id)
            THEN Done(accounts_file_id, mapping_response.calls)
            ELSE IF Failed(locations_file_id)
            THEN Done(locations_file_id, mapping_response.calls)
            ELSE submit_import_job([edm_name |-> a.edm_name,
                                    portfolio_id |-> portfolio_id,
                                    bucket_id |-> bucket_number.result,
                                    accounts_file_id |-> accounts_file_id.result,
                                    locations_file_id |-> locations_file_id.result,
                                    mapping_file_id |-> mapping_response.result],
                                   w.submitted, mapping_response.calls),
            mapping_response.posted)

\* the validate_file_exists calls on names, in order, up to the first that
\* finds no file: the argument it rejects ("" when every file is there) and
\* the checks made
FilesExist(w, names, log) ==
    LET gone == {i \in 1..Len(names) : names[i] \in w.missing_files}
        first == IF gone = {} THEN Len(names)
                 ELSE CHOOSE i \in gone : \A j \in gone : i <= j
    IN  [rejected |-> IF gone = {} THEN "" ELSE names[first],
         calls |-> log \o [i \in 1..first |-> "validate_file_exists " \o names[i]]]

submit_mri_import_job(a, w) ==
    LET rejected == FirstRejected(<<NonEmptyString(a, "edm_name"),
                                    NonEmptyString(a, "portfolio_name"),
                                    NonEmptyString(a, "accounts_file_name"),
                                    NonEmptyString(a, "locations_file_name"),
                                    NonEmptyString(a, "mapping_file_name")>>)
        edms == search_edms(w, <<>>)
        edm == ExpectOne(edms.result, "EDM", {"exposureId"})
        portfolios == search_portfolios(edm.result.exposureId, w, edms.calls)
        portfolio == PortfolioByName(portfolios.result)
        checked == FilesExist(w, <<"accounts_file_name", "locations_file_name",
                                   "mapping_file_name">>, portfolios.calls)
        synced == _sync_mapping_with_csv_headers(w.files)
        uploaded == UploadAndSubmit(a, w, synced.files, portfolio.result.portfolioId,
                                    checked.calls \o synced.calls)
    IN  IF rejected # "" THEN Done(Raise("IRPValidationError", rejected), <<>>)
        ELSE IF Failed(edms) THEN edms
        ELSE IF Failed(edm) THEN Done(edm, edms.calls)
        ELSE IF Failed(portfolios) THEN portfolios
        ELSE IF Failed(portfolio) THEN Done(portfolio, portfolios.calls)
        ELSE IF checked.rejected # ""
        THEN Done(Raise("IRPValidationError", checked.rejected), checked.calls)
        ELSE IF get_file_size_kb(w, "accounts_file_name") < 0
                    \/ get_file_size_kb(w, "locations_file_name") < 0
        THEN Done(Raise("IRPFileError", "Failed to determine file sizes"),
                  checked.calls \o synced.calls) @@ [files |-> synced.files]
        ELSE uploaded @@ [files |-> synced.files]

----------------------------------------------------------------------------
(* Client.request: the session with its Retry adapter, then raise_for_status *)

\* Retry(total=5, status_forcelist=..., allowed_methods=..., raise_on_status=False)
RetryTotal == 5
status_forcelist == {429, 500, 502, 503, 504}
allowed_methods == {"GET", "POST", "PUT", "PATCH", "DELETE"}

\* what the network does with one attempt: a response, or no response
Attempt(status_code) == [kind |-> "response", status_code |-> status_code]
ConnectError == [kind |-> "connect_error"]
ReadError == [kind |-> "read_error"]

\* session.request from attempt i on: attempts[i] is what becomes of the i-th
\* time the request is sent.  A connect error is retried while the budget
\* lasts; a read error and a status of the forcelist as well when the method
\* is an allowed one; with the budget spent an error is raised and a response
\* is handed back as it is.
RECURSIVE session_request(_, _, _)
session_request(method, attempts, i) ==
    LET sent == [k \in 1..i |-> "session.send"]
        this == attempts[i]
        retryable == method \in allowed_methods
    IN  IF this.kind = "connect_error"
        THEN IF i <= RetryTotal THEN session_request(method, attempts, i + 1)
             ELSE Done(Raise("ConnectionError", "Max retries exceeded"), sent)
        ELSE IF this.kind = "read_error"
        THEN IF retryable /\ i <= RetryTotal
             THEN session_request(method, attempts, i + 1)
             ELSE Done(Raise("ConnectionError", "Read timed out"), sent)
        ELSE IF this.status_code \in status_forcelist /\ retryable /\ i <= RetryTotal
        THEN session_request(method, attempts, i + 1)
        ELSE Done(Return(this), sent)

\* response.raise_for_status()
raise_for_status(resp) ==
    IF 400 <= resp.status_code /\ resp.status_code < 600
    THEN Raise("HTTPError", ToString(resp.status_code))
    ELSE Return(NotSet)

\* a variant that hands back whatever response the session returns
request_unchecked(method, attempts) ==
    LET sent == session_request(method, attempts, 1)
    IN  IF ~validate_non_empty_string(method)
        THEN Done(Raise("IRPValidationError", "method"), <<>>)
        ELSE IF Failed(sent) THEN Done(Raise("IRPAPIError", "Request error"), sent.calls)
        ELSE sent

request(method, attempts) ==
    LET sent == session_request(method, attempts, 1)
    IN  IF ~validate_non_empty_string(method)
        THEN Done(Raise("IRPValidationError", "method"), <<>>)
        ELSE IF Failed(sent) THEN Done(Raise("IRPAPIError", "Request error"), sent.calls)
        ELSE IF Failed(raise_for_status(sent.result))
        THEN Done(Raise("IRPAPIError", "HTTP request failed"), sent.calls)
        ELSE sent

----------------------------------------------------------------------------
(* The calls of the manager operations and helper functions *)

ReferenceItems ==
    {[name |-> "A", id |-> 1], [name |-> "A", id |-> 2], [name |-> "B", id |-> 3],
     [id |-> 4]}

Encoded ==
    "accessKeyId" :> "QUtJQQ==" @@ "secretAccessKey" :> "c2VjcmV0"
        @@ "sessionToken" :> "dG9rZW4=" @@ "s3Path" :> "YnVja2V0L3ByZWZpeA=="
        @@ "s3Region" :> "dXMtZWFzdC0x" @@ "path" :> "YnVja2V0L3ByZWZpeA=="
        @@ "region" :> "dXMtZWFzdC0x"
NotDecodable(f) == IF f = "sessionToken" THEN "/w==" ELSE "QUtJQ"

\* the JSON objects that hold some of fields, each value decodable or not
Payloads(fields) ==
    {[f \in P |-> IF f \in B THEN NotDecodable(f) ELSE Encoded[f]] :
        P \in SUBSET fields, B \in SUBSET fields}

MriFields == {"accessKeyId", "secretAccessKey", "sessionToken", "s3Path", "s3Region"}
PresignFields == {"accessKeyId", "secretAccessKey", "sessionToken", "path", "region"}

Complete == [f \in MriFields |-> Encoded[f]]
CredentialAnswers ==
    {[headers |-> h, body |-> b] :
        h \in {<<>>, [location |-> "https://host/files/11"]},
        b \in {[kind |-> "invalid"], [kind |-> "null"],
               [kind |-> "object", value |-> Complete],
               [kind |-> "object", value |-> [f \in MriFields \ {"s3Region"} |-> Encoded[f]]],
               [kind |-> "object",
                value |-> [Complete EXCEPT !.secretAccessKey = NotDecodable("secretAccessKey")]]}}
GoodAnswers ==
    {a \in CredentialAnswers : a.headers # <<>> /\ a.body.kind = "object"}

Headers == {"zip", "ZIP", "city"}
MappingItems ==
    {[source |-> "ZIP", destination |-> "PostalCode"],
     [source |-> "zip", destination |-> "zip"],
     [source |-> "city", destination |-> "City"]}

\* mapping specifications, with and without each of the two lists
Mappings ==
    {[k \in K |-> IF k \in F THEN <<[source |-> "ZIP", destination |-> "PostalCode"]>>
                  ELSE <<>>] :
        K \in SUBSET {"accountItems", "locationItems"},
        F \in SUBSET {"accountItems", "locationItems"}}
HeaderRows == {<<>>, <<"zip">>, <<"ZIP", "city">>}
Files == [mapping : Mappings, accounts : HeaderRows, locations : HeaderRows]
ImportFiles ==
    [mapping |-> [accountItems |-> <<>>,
                  locationItems |-> <<[source |-> "ZIP", destination |-> "PostalCode"]>>],
     accounts |-> <<"zip">>, locations |-> <<"ZIP">>]

Submissions == {Created(WorkflowUrl), NoLocation}

\* a mapping file that the sync has nothing to add to
SyncedFiles ==
    [mapping |-> [accountItems |-> <<[source |-> "zip", destination |-> "zip"]>>,
                  locationItems |-> <<[source |-> "ZIP", destination |-> "PostalCode"]>>],
     accounts |-> <<"zip">>, locations |-> <<"ZIP">>]

\* the outside calls that may fail: the searches, and the steps of the import
SearchSteps == {"search_edms", "search_portfolios"}
ImportSteps ==
    SearchSteps \cup {"create_aws_bucket", "accounts_credentials", "accounts_upload",
                      "locations_credentials", "locations_upload",
                      "upload_mapping_file"}

\* the entries of the list operations: complete, with a blank name, and
\* without one of the keys
PortfolioEntries ==
    {[edm_name |-> "name", portfolio_name |-> "name", portfolio_number |-> "1",
      description |-> ""],
     [edm_name |-> "name", portfolio_name |-> " ", portfolio_number |-> "1",
      description |-> ""],
     [edm_name |-> "name", portfolio_name |-> "name", portfolio_number |-> "1"]}
GeohazEntries ==
    {[edm_name |-> "name", portfolio_name |-> "name", version |-> "22.0",
      hazard_eq |-> TRUE, hazard_ws |-> FALSE],
     [edm_name |-> " ", portfolio_name |-> "name", version |-> "22.0",
      hazard_eq |-> TRUE, hazard_ws |-> FALSE],
     [edm_name |-> "name", portfolio_name |-> "name", version |-> "22.0"]}

\* what the server answers to the call made for one entry
PortfolioAnswers ==
    {[edms |-> <<Edm(1)>>, portfolios |-> <<>>, submitted |-> Created(WorkflowUrl),
      failing |-> ""],
     [edms |-> <<Edm(1)>>, portfolios |-> <<>>,
      submitted |-> Created("https://host/files/11"), failing |-> ""],
     [edms |-> <<Edm(1)>>, portfolios |-> <<Portfolio(1)>>,
      submitted |-> Created(WorkflowUrl), failing |-> ""],
     [edms |-> <<Edm(1)>>, portfolios |-> <<>>, submitted |-> NoLocation,
      failing |-> ""],
     [edms |-> <<Edm(1)>>, portfolios |-> <<>>, submitted |-> Created(WorkflowUrl),
      failing |-> "search_edms"]}
GeohazAnswers ==
    {[edms |-> <<Edm(1)>>, portfolios |-> <<Portfolio(1)>>,
      accounts |-> <<[accountId |-> 2, locationsCount |-> 3]>>,
      submitted |-> Created(WorkflowUrl), failing |-> ""],
     [edms |-> <<Edm(1)>>, portfolios |-> <<Portfolio(1)>>,
      accounts |-> <<[accountId |-> 2, locationsCount |-> 3]>>,
      submitted |-> Created("https://host/files/11"), failing |-> ""],
     [edms |-> <<Edm(1)>>, portfolios |-> <<Portfolio(1)>>, accounts |-> <<>>,
      submitted |-> Created(WorkflowUrl), failing |-> ""],
     [edms |-> <<Edm(1)>>, portfolios |-> <<Portfolio(1)>>,
      accounts |-> <<[accountId |-> 2, locationsCount |-> 3]>>,
      submitted |-> NoLocation, failing |-> ""],
     [edms |-> <<Edm(1)>>, portfolios |-> <<Portfolio(1)>>,
      accounts |-> <<[accountId |-> 2, locationsCount |-> 3]>>,
      submitted |-> Created(WorkflowUrl), failing |-> "search_portfolios"]}

ArgsOf(o) ==
    CASE o = "find_reference_data_by_name" ->
            [data_list : SeqsUpTo(ReferenceItems, MaxItems), target_name : {"A"}]
      [] o = "decode_mri_credentials" -> [response_json : Payloads(MriFields)]
      [] o = "decode_presign_params" -> [presign_params : Payloads(PresignFields)]
      [] o = "_add_missing_sources" ->
            [headers : SeqsUpTo(Headers, MaxHeaders),
             items : SeqsUpTo(MappingItems, MaxItems)]
      [] o = "_sync_mapping_with_csv_headers" ->
            {[mapping_file_path |-> "mapping.json"]}
      [] o = "extract_id_from_location_header" ->
            [response : {[headers |-> h] :
                            h \in {<<>>} \cup {[location |-> slash_join(parts)] :
                                                  parts \in LocationParts}}]
      [] o = "request" -> [method : {" ", "GET", "HEAD"}]
      [] o = "get_file_credentials" ->
            [bucket_url : {"", "https://host/buckets/5"}, filename : {" ", "accounts.csv"},
             filesize : {0, 5}, file_type : {"account"}]
      [] o = "submit_import_job" ->
            [edm_name : {"", "name"}, portfolio_id : {0, 21}, bucket_id : {5},
             accounts_file_id : {11}, locations_file_id : {11}, mapping_file_id : {0, 9}]
      [] o = "submit_mri_import_job" ->
            [edm_name : {"name"}, portfolio_name : {" ", "name"},
             accounts_file_name : {"accounts.csv"},
             locations_file_name : {"locations.csv"},
             mapping_file_name : {"mapping.json"}]
      [] o = "create_portfolio" ->
            [edm_name : {" ", "name"}, portfolio_name : {"", "name"},
             portfolio_number : {"1"}]
      [] o = "submit_geohaz_job" ->
            [portfolio_name : {"", "name"}, edm_name : {" ", "name"}]
      [] o = "execute_portfolio_mapping" ->
            [portfolio_name : {"", "name"}, edm_name : {"name"},
             import_file : {"USFL"}, cycle_type : {"Quarterly"}]
      [] o = "create_portfolios" ->
            [portfolio_data_list : SeqsUpTo(PortfolioEntries, MaxEntries)]
      [] o = "submit_geohaz_jobs" ->
            [geohaz_data_list : SeqsUpTo(GeohazEntries, MaxEntries)]

WorldsOf(o) ==
    CASE o = "_sync_mapping_with_csv_headers" -> [files : Files]
      [] o = "get_file_credentials" -> [answer : CredentialAnswers]
      [] o = "request" ->
            [attempts : [1..(RetryTotal + 1) -> {Attempt(200), Attempt(404), Attempt(503),
                                            ConnectError, ReadError}]]
      [] o = "submit_import_job" -> [submitted : Submissions]
      [] o = "submit_mri_import_job" ->
            [edms : EdmResults, portfolios : PortfolioResults,
             missing_files : {{}, {"accounts_file_name"}, {"locations_file_name"},
                              {"mapping_file_name"}},
             files : {ImportFiles, SyncedFiles},
             size_bytes : {[accounts_file_name |-> b, locations_file_name |-> 5120] :
                              b \in {1023, 1024}},
             bucket : {Created("https://host/buckets/5"),
                       Created("https://host/buckets/abc"), NoLocation},
             accounts_credentials : {a \in GoodAnswers : a.body.value = Complete},
             locations_credentials : GoodAnswers,
             mapping_file_id : {9},
             submitted : Submissions,
             failing : {""} \cup ImportSteps,
             posted : {NotSet}]
      [] o = "create_portfolio" ->
            [edms : EdmResults, portfolios : PortfolioResults, submitted : Submissions,
             failing : {""} \cup SearchSteps]
      [] o = "submit_geohaz_job" ->
            [edms : EdmResults, portfolios : PortfolioResults,
             accounts : AccountResults, submitted : Submissions,
             failing : {""} \cup SearchSteps]
      [] o = "execute_portfolio_mapping" ->
            [edms : EdmResults, portfolios : PortfolioResults,
             cycle_type_directory : BOOLEAN, sql_file_exists : BOOLEAN,
             sql_runs : BOOLEAN, result_sets : SeqsUpTo({"rows"}, MaxResultSets),
             failing : {""} \cup SearchSteps]
      [] o = "create_portfolios" -> [answers : [1..MaxEntries -> PortfolioAnswers]]
      [] o = "submit_geohaz_jobs" -> [answers : [1..MaxEntries -> GeohazAnswers]]
      [] OTHER -> {NotSet}

ManagerInit ==
    /\ op \in ManagerOps \cup HelperOps \cup ClientOps \cup BulkOps
    /\ args \in ArgsOf(op)
    /\ world \in WorldsOf(op)
    /\ calls = <<>>
    /\ pc = "start"
    /\ result = NotSet
    /\ raised = NotSet
    /\ handle = NotSet
    /\ interval = 0
    /\ timeout = 0
    /\ start = 0
    /\ now = 0
    /\ response = NotSet
    /\ all_items = <<>>
    /\ offset = 0
    /\ all_completed = FALSE
    /\ seen = <<>>
    /\ tick_log = <<>>
    /\ page_log = NoPages
    /\ targets = {}
    /\ submits = 0
    /\ sleeps = 0
    /\ client = Client
    /\ running = 1
    /\ frames = NotSet

\* the call of operation o runs from its first line to its return or raise
Run(o, out) ==
    /\ op = o
    /\ pc = "start"
    /\ pc' = out.pc
    /\ result' = out.result
    /\ raised' = out.raised
    /\ calls' = out.calls
    /\ world' = [k \in DOMAIN world |->
                    IF k \in {"files", "posted"} /\ k \in DOMAIN out THEN out[k]
                    ELSE world[k]]
    /\ UNCHANGED <<op, args, handle, interval, timeout, start, now, response,
                   all_items, offset, all_completed, seen, tick_log, page_log,
                   targets, submits, sleeps,
                   client, running, frames>>

find_reference_data_by_name_call ==
    Run("find_reference_data_by_name",
        Done(find_reference_data_by_name(args.data_list, args.target_name), <<>>))

decode_mri_credentials_call ==
    Run("decode_mri_credentials", decode_mri_credentials(args.response_json))

decode_presign_params_call ==
    Run("decode_presign_params", decode_presign_params(args.presign_params))

\* the value is the list after the call together with the flag returned
_add_missing_sources_call ==
    Run("_add_missing_sources",
        Done(Return(_add_missing_sources(args.headers, args.items)), <<>>))

_sync_mapping_with_csv_headers_call ==
    Run("_sync_mapping_with_csv_headers",
        LET synced == _sync_mapping_with_csv_headers(world.files)
        IN  Done(Return(NotSet), synced.calls) @@ [files |-> synced.files])

\* the same call once more, on the files as the first call left them
_sync_mapping_with_csv_headers_again ==
    /\ op = "_sync_mapping_with_csv_headers"
    /\ pc = "returned"
    /\ Len(SelectSeq(calls, LAMBDA c : c = "json.load mapping")) = 1
    /\ LET synced == _sync_mapping_with_csv_headers(world.files)
       IN  /\ world' = [world EXCEPT !.files = synced.files]
           /\ calls' = calls \o synced.calls
    /\ UNCHANGED <<op, args, pc, result, raised, handle, interval, timeout, start,
                   now, response, all_items, offset, all_completed, seen, tick_log,
                   page_log, targets, submits, sleeps, client, running, frames>>

get_file_credentials_call ==
    Run("get_file_credentials", get_file_credentials(args, world.answer, <<>>))

submit_import_job_call ==
    Run("submit_import_job", submit_import_job(args, world.submitted, <<>>))

submit_mri_import_job_call ==
    Run("submit_mri_import_job", submit_mri_import_job(args, world))

create_portfolio_call == Run("create_portfolio", create_portfolio(args, world))

submit_geohaz_job_call == Run("submit_geohaz_job", submit_geohaz_job(args, world))

execute_portfolio_mapping_call ==
    Run("execute_portfolio_mapping", execute_portfolio_mapping(args, world))

extract_id_from_location_header_call ==
    Run("extract_id_from_location_header",
        Done(extract_id_from_location_header(args.response), <<>>))

request_call == Run("request", request(args.method, world.attempts))

create_portfolios_call == Run("create_portfolios", create_portfolios(args, world))

submit_geohaz_jobs_call == Run("submit_geohaz_jobs", submit_geohaz_jobs(args, world))

ManagerNext ==
    \/ find_reference_data_by_name_call
    \/ decode_mri_credentials_call
    \/ decode_presign_params_call
    \/ _add_missing_sources_call
    \/ _sync_mapping_with_csv_headers_call
    \/ _sync_mapping_with_csv_headers_again
    \/ get_file_credentials_call
    \/ submit_import_job_call
    \/ submit_mri_import_job_call
    \/ create_portfolio_call
    \/ submit_geohaz_job_call
    \/ execute_portfolio_mapping_call
    \/ extract_id_from_location_header_call
    \/ request_call
    \/ create_portfolios_call
    \/ submit_geohaz_jobs_call

ManagerSpec == ManagerInit /\ [][ManagerNext]_vars

----------------------------------------------------------------------------
(* Two calls of submit_mri_import_job that run concurrently, each in a      *)
(* thread of its own, on one mapping file and with data files of their own: *)
(* the mapping syncs of the two calls.  args[t] holds the header rows of    *)
(* the data files of thread t, frames[t] its position and its local         *)
(* `mapping`, world.files.mapping the mapping file, and world.truncated     *)
(* says that the file was opened for writing and not written yet.           *)

\* mapping files that hold both lists
SharedMappings == {m \in Mappings : DOMAIN m = {"accountItems", "locationItems"}}

SyncInit ==
    /\ op = "_sync_mapping_with_csv_headers"
    /\ args \in [Threads -> [accounts : HeaderRows, locations : HeaderRows]]
    /\ world \in [files : [mapping : SharedMappings], truncated : {FALSE}]
    /\ frames = [t \in Threads |-> [pc |-> "load", mapping |-> NotSet]]
    /\ running = 1
    /\ client = Client
    /\ calls = <<>>
    /\ pc = "start"
    /\ result = NotSet
    /\ raised = NotSet
    /\ handle = NotSet
    /\ interval = 0
    /\ timeout = 0
    /\ start = 0
    /\ now = 0
    /\ response = NotSet
    /\ all_items = <<>>
    /\ offset = 0
    /\ all_completed = FALSE
    /\ seen = <<>>
    /\ tick_log = <<>>
    /\ page_log = NoPages
    /\ targets = {}
    /\ submits = 0
    /\ sleeps = 0

\* what the sync of thread t makes of the mapping it has loaded
SyncOf(t) ==
    _sync_mapping_with_csv_headers([mapping |-> frames[t].mapping,
                                    accounts |-> args[t].accounts,
                                    locations |-> args[t].locations])

SyncStep(t, position, mapping) ==
    /\ frames' = [frames EXCEPT ![t] = [pc |-> position, mapping |-> mapping]]
    /\ calls' = calls
    /\ UNCHANGED <<op, args, pc, result, raised, handle, interval, timeout, start,
                   now, response, all_items, offset, all_completed, seen, tick_log,
                   page_log, targets, submits, sleeps, client, running>>

\* `with open(mapping_file_path, 'r') as f: mapping = json.load(f)`; a file
\* that was opened for writing and not written yet holds no JSON
json_load(t) ==
    /\ frames[t].pc = "load"
    /\ IF world.truncated
       THEN SyncStep(t, "raised", frames[t].mapping)
       ELSE SyncStep(t, "loaded", world.files.mapping)
    /\ world' = world

\* the two _add_missing_sources calls, then `if modified: open(path, 'w')`
open_for_writing(t) ==
    /\ frames[t].pc = "loaded"
    /\ IF Len(SyncOf(t).calls) > 1
       THEN /\ SyncStep(t, "opened", SyncOf(t).files.mapping)
            /\ world' = [world EXCEPT !.truncated = TRUE]
       ELSE /\ SyncStep(t, "done", frames[t].mapping)
            /\ world' = world

\* json.dump(mapping, f, indent=4) and the close of the file
json_dump(t) ==
    /\ frames[t].pc = "opened"
    /\ SyncStep(t, "done", frames[t].mapping)
    /\ world' = [files |-> [mapping |-> frames[t].mapping], truncated |-> FALSE]

SyncNext ==
    \/ \E t \in Threads : json_load(t)
    \/ \E t \in Threads : open_for_writing(t)
    \/ \E t \in Threads : json_dump(t)

SyncSpec == SyncInit /\ [][SyncNext]_vars

----------------------------------------------------------------------------
(* Properties *)

StatusOf(body) == get(body, "status", "")
LastSeen == seen[Len(seen)]
TimeoutErrors == {"IRPJobError", "IRPWorkflowError"}
TimedOut == pc = "raised" /\ raised.type \in TimeoutErrors

\* the record carries the fields the poller requires of it
WellFormed(body) ==
    IF op \in {"poll_workflow", "execute_workflow"} THEN TRUE
    ELSE {"status", "progress"} \subseteq DOMAIN body

\* C1: a single-handle poller returns only when the status of its most recent
\* fetch is in COMPLETED, and what it returns is the payload of that fetch; no
\* earlier fetch had a COMPLETED status and the call ends at the tick of the
\* first one (no later fetch or sleep), returning whenever the record carries
\* the fields the poller requires; a status outside both sets never makes it
\* return.
C1_ReturnsAtFirstCompleted ==
    (op \in SingleOps /\ seen # <<>>) =>
        /\ pc = "returned" =>
              /\ StatusOf(LastSeen) \in WORKFLOW_COMPLETED_STATUSES
              /\ result = LastSeen
        /\ \A i \in 1..(Len(seen) - 1) :
              StatusOf(seen[i]) \notin WORKFLOW_COMPLETED_STATUSES
        /\ StatusOf(LastSeen) \in WORKFLOW_COMPLETED_STATUSES =>
              /\ pc \in Terminal
              /\ WellFormed(LastSeen) => pc = "returned"
        /\ StatusOf(LastSeen) \notin
                (WORKFLOW_COMPLETED_STATUSES \cup WORKFLOW_IN_PROGRESS_STATUSES) =>
              pc # "returned"

\* a poller returns a COMPLETED payload on a tick that followed a sleep
C1_Witness ==
    /\ op \in SingleOps
    /\ pc = "returned"
    /\ Len(seen) >= 2
    /\ sleeps >= 1
    /\ result = LastSeen

\* C2: the geohaz batch poller returns only at a tick in which it fetched the
\* status of every job id and none of the statuses it observed in that tick is
\* in IN_PROGRESS.
C2_ReturnsOnlyWhenNoneInProgress ==
    (op \in GeohazBatchOps /\ pc = "returned") =>
        /\ Len(tick_log) = Len(handle)
        /\ \A i \in 1..Len(tick_log) :
              StatusOf(tick_log[i]) \notin WORKFLOW_IN_PROGRESS_STATUSES

\* C3: what a batch poller returns holds a final status record for every
\* requested handle: the geohaz batch returns one record per job id, in the
\* order of job_ids; a list-style batch returns every workflow the listing
\* reported for the requested ids in its final tick.
C3_ResultCoversEveryHandle ==
    pc = "returned" =>
        /\ op \in GeohazBatchOps =>
              /\ Len(result) = Len(handle)
              /\ \A i \in 1..Len(result) : result[i].id = handle[i]
        /\ op = "poll_import_job_batch_to_completion" => result = tick_log
        /\ op = "poll_workflow_batch_to_completion" =>
              get(result, "workflows", <<>>) = tick_log

\* the pagination of a tick has ended
TickEnded == pc \in {"sleep", "returned"} \/ TimedOut

\* C4: a list-style batch poller returns at a tick only if no workflow fetched
\* in that tick has a status in IN_PROGRESS; a tick that fetched one ends in a
\* sleep, or in the timeout error once the time elapsed exceeds the timeout.
C4_CompletesOnlyWhenNoneInProgress ==
    (op \in ListOps /\ TickEnded) =>
        /\ pc = "returned" <=> NoneInProgress(tick_log)
        /\ pc = "sleep" => now - start <= timeout
        /\ TimedOut => now - start > timeout

\* a tick of two pages of which only the first holds a workflow in progress
C4_Witness ==
    /\ op \in ListOps
    /\ pc = "sleep"
    /\ Len(page_log.offsets) = 2
    /\ StatusOf(tick_log[1]) \in WORKFLOW_IN_PROGRESS_STATUSES
    /\ StatusOf(tick_log[Len(tick_log)]) \notin WORKFLOW_IN_PROGRESS_STATUSES

\* every record fetched so far carries the required fields and a status
\* outside COMPLETED
NeverCompleted ==
    \A i \in 1..Len(seen) :
        /\ WellFormed(seen[i])
        /\ StatusOf(seen[i]) \notin WORKFLOW_COMPLETED_STATUSES

\* C5 as stated: with interval > timeout and a status that never becomes
\* COMPLETED, a single-handle poller makes exactly one status fetch, finds the
\* elapsed time above the timeout at its first check and raises the timeout
\* error naming the status it observed.
C5_OneFetchThenTimeout ==
    (op \in SingleOps /\ interval > timeout /\ seen # <<>> /\ NeverCompleted) =>
        /\ Len(seen) = 1
        /\ TimedOut
        /\ now - start > timeout
        /\ raised.info = StatusOf(LastSeen)

\* C5 as amended: with interval > timeout and a status that never becomes
\* COMPLETED, a single-handle poller makes at most two status fetches and
\* sleeps at most once: its first check raises the timeout error exactly when
\* the first fetch alone took longer than the timeout; otherwise it sleeps
\* once and its second check raises it; the error names the status of the
\* last fetch.
C5_AtMostTwoFetches ==
    (op \in SingleOps /\ interval > timeout /\ seen # <<>> /\ NeverCompleted) =>
        /\ Len(seen) <= 2
        /\ sleeps <= 1
        /\ (Len(seen) = 1 /\ pc # "fetch") =>
              /\ pc = "sleep" <=> now - start <= timeout
              /\ TimedOut <=> now - start > timeout
        /\ Len(seen) = 2 => (TimedOut /\ now - start > timeout /\ sleeps = 1)
        /\ TimedOut => raised.info = StatusOf(LastSeen)

\* the timeout error of the second tick, after one sleep longer than the timeout
C5_Witness ==
    /\ op \in SingleOps
    /\ interval > timeout
    /\ NeverCompleted
    /\ Len(seen) = 2
    /\ sleeps = 1
    /\ TimedOut
    /\ raised.info = StatusOf(LastSeen)

\* C6 as stated: in a tick whose pages all report totalMatchCount = 250, a
\* list-style batch poller makes exactly 3 page requests, at offsets 0, 100
\* and 200, however many workflows the pages hold.
C6_ThreePagesFor250 ==
    (op \in ListOps /\ TickEnded /\ page_log.totals = {250}) =>
        page_log.offsets = <<0, limit, 2 * limit>>

\* C6 as amended: every tick of a list-style batch poller starts at offset 0
\* with an empty accumulator and asks for offsets 0, 100, 200, ...; the
\* accumulator holds the workflows of the pages of this tick only; the tick
\* asks for another page exactly while the accumulated count is below the
\* totalMatchCount of the latest page.  With totalMatchCount = 250 and pages
\* that hold what was asked for (100, 100, 50) that makes exactly 3 requests,
\* at offsets 0, 100 and 200.
C6_PaginationRestartsEveryTick ==
    op \in ListOps =>
        /\ \A i \in 1..Len(page_log.offsets) :
              page_log.offsets[i] = (i - 1) * limit
        /\ (pc = "fetch" /\ page_log.offsets = <<>>) =>
              (all_items = <<>> /\ offset = 0)
        /\ (pc = "fetch" \/ TickEnded) => all_items = tick_log
        /\ (pc = "fetch" /\ page_log.offsets # <<>>) =>
              Len(tick_log) < response.totalMatchCount
        /\ TickEnded => Len(tick_log) >= response.totalMatchCount
        /\ (TickEnded /\ page_log.totals = {250} /\ page_log.as_asked) =>
              page_log.offsets = <<0, limit, 2 * limit>>

\* a second tick of three pages 100, 100, 50 for totalMatchCount = 250
C6_Witness ==
    /\ op \in ListOps
    /\ sleeps >= 1
    /\ TickEnded
    /\ page_log.totals = {250}
    /\ page_log.as_asked
    /\ page_log.offsets = <<0, limit, 2 * limit>>
    /\ Len(tick_log) = 250

SeenStatuses == [i \in 1..Len(seen) |-> StatusOf(seen[i])]

\* the submission was answered 202 with the Location of the workflow
Accepted202 ==
    /\ op = "execute_workflow"
    /\ submits = 1
    /\ response.status_code = 202
    /\ get(response.headers, "location", "") = WorkflowUrl

\* C7: when the submission is answered 202 with a Location header and the
\* status fetches answer RUNNING, RUNNING, FINISHED, execute_workflow goes on
\* polling after each RUNNING and returns the third payload after exactly one
\* submission request, three GETs, all on the Location URL, and two sleeps.
C7_ReturnsThirdPayload ==
    Accepted202 =>
        /\ SeenStatuses \in {<<"RUNNING">>, <<"RUNNING", "RUNNING">>} =>
              /\ pc \in {"sleep", "fetch"}
              /\ sleeps = (IF pc = "sleep" THEN Len(seen) - 1 ELSE Len(seen))
        /\ SeenStatuses = <<"RUNNING", "RUNNING", "FINISHED">> =>
              /\ pc = "returned"
              /\ result = seen[3]
              /\ Len(seen) = 3
              /\ sleeps = 2
              /\ targets = {WorkflowUrl}

C7_Witness ==
    /\ Accepted202
    /\ SeenStatuses = <<"RUNNING", "RUNNING", "FINISHED">>
    /\ pc = "returned"
    /\ result = seen[3]

\* C8: execute_workflow returns the submission response unchanged, without a
\* status fetch, when its status code is neither 201 nor 202; with 201 or 202
\* and a Location header that is absent or empty it fails with an API error
\* without a status fetch; otherwise it goes on to poll, and polls the
\* Location URL only.
C8_SubmissionOutcomes ==
    (op = "execute_workflow" /\ submits = 1) =>
        LET code == response.status_code
            location == get(response.headers, "location", "")
        IN  /\ code \notin {201, 202} =>
                  (pc = "returned" /\ result = response /\ seen = <<>>)
            /\ (code \in {201, 202} /\ location = "") =>
                  (pc = "raised" /\ raised.type = "IRPAPIError" /\ seen = <<>>)
            /\ (code \in {201, 202} /\ location # "") =>
                  /\ targets \subseteq {location}
                  /\ ~(pc = "raised" /\ seen = <<>>)

\* C9: every poller eventually returns or raises, whatever the server answers.
C9_EveryPollTerminates == <>(op \in ExecOps \/ pc \in Terminal)

\* C10 as stated: a single-handle poller that has observed a status in
\* IN_PROGRESS does not end before it has made another status fetch.
C10_InProgressContinues ==
    (op \in SingleOps /\ seen # <<>> /\ WellFormed(LastSeen)
        /\ StatusOf(LastSeen) \in WORKFLOW_IN_PROGRESS_STATUSES) =>
        pc \in {"sleep", "fetch"}

\* C10 as amended: a single-handle poller that observes a status in
\* IN_PROGRESS, in a record that carries its required fields, never returns at
\* that tick; if the time elapsed at that tick does not exceed the timeout it
\* sleeps and cannot end before it has made another status fetch; if it does,
\* the tick raises the timeout error.
C10_InProgressContinuesUnlessTimeout ==
    /\ [](  (op \in SingleOps /\ seen # <<>> /\ WellFormed(LastSeen)
                /\ StatusOf(LastSeen) \in WORKFLOW_IN_PROGRESS_STATUSES) =>
              /\ pc # "returned"
              /\ pc = "sleep" => now - start <= timeout
              /\ pc = "raised" => (TimedOut /\ now - start > timeout)  )
    /\ [][  (op \in SingleOps /\ pc \in {"sleep", "fetch"} /\ pc' \in Terminal) =>
              Len(seen') = Len(seen) + 1  ]_vars

\* a second fetch follows a tick that observed a status in IN_PROGRESS
C10_Witness ==
    /\ op \in SingleOps
    /\ Len(seen) >= 2
    /\ WellFormed(seen[1])
    /\ StatusOf(seen[1]) \in WORKFLOW_IN_PROGRESS_STATUSES
    /\ sleeps >= 1

\* C11: a single-handle poller raises its timeout error only at a tick whose
\* fetch returned a status outside COMPLETED and at which the time elapsed
\* since the start of polling exceeds the timeout, and the error reports the
\* status of that fetch; the check is made once in every tick, after the
\* fetch: a tick that goes on to sleep found the elapsed time within the
\* timeout, and the error is raised by a fetch step only, never by the sleep.
C11_TimeoutOnlyAfterFetch ==
    /\ [](  op \in SingleOps =>
              /\ TimedOut =>
                    /\ seen # <<>>
                    /\ StatusOf(LastSeen) \notin WORKFLOW_COMPLETED_STATUSES
                    /\ now - start > timeout
                    /\ raised.info = StatusOf(LastSeen)
              /\ pc = "sleep" => now - start <= timeout  )
    /\ [][  (op \in SingleOps /\ ~TimedOut /\ TimedOut') =>
              (pc = "fetch" /\ Len(seen') = Len(seen) + 1 /\ sleeps' = sleeps)  ]_vars

\* a job-style poller times out on RUNNING at a tick that followed a sleep
C11_Witness ==
    /\ op \in {"poll_workflow_to_completion", "poll_geohaz_job_to_completion"}
    /\ TimedOut
    /\ raised.type = "IRPJobError"
    /\ sleeps >= 1
    /\ raised.info = "RUNNING"
    /\ StatusOf(LastSeen) = "RUNNING"

\* the fields a single-handle poller is to require of a status record
RequiredFields ==
    IF op = "poll_workflow" THEN {"status"} ELSE {"status", "progress"}

\* C12: when a status record fetched by a single-handle poller lacks the
\* status field (or, in a job-style poller, the progress field), the poll is
\* over at that tick with an API error: no sleep and no further fetch follows.
C12_MissingFieldFailsAtOnce ==
    (op \in SingleOps /\ seen # <<>>) =>
        \A i \in 1..Len(seen) :
            ~(RequiredFields \subseteq DOMAIN seen[i]) =>
                /\ i = Len(seen)
                /\ pc = "raised"
                /\ raised.type = "IRPAPIError"

----------------------------------------------------------------------------
(* Properties of the manager operations and helper functions *)

Called == pc \in Terminal
Made(call) == \E i \in 1..Len(calls) : calls[i] = call
HttpRequests == SelectSeq(calls, LAMBDA c : c \in HttpCalls)
RaisedOfType(type) == pc = "raised" /\ raised.type = type

\* C13: an operation that fails with a validation error has issued no HTTP
\* request.
C13_ValidationBeforeRequests ==
    RaisedOfType("IRPValidationError") => HttpRequests = <<>>

LookupOps == {"submit_mri_import_job", "submit_geohaz_job", "execute_portfolio_mapping"}

\* C14: in submit_mri_import_job, submit_geohaz_job and
\* execute_portfolio_mapping, an EDM search or a portfolio search that was
\* made and did not return exactly one match ends the operation with an error
\* right there: no call follows it; whatever follows the two searches, and
\* every return, has seen exactly one EDM and exactly one portfolio.
C14_ExactlyOneMatch ==
    (op \in LookupOps /\ Called) =>
        /\ (Made("GET SEARCH_EDMS") /\ Len(world.edms) # 1) =>
              (pc = "raised" /\ calls = <<"GET SEARCH_EDMS">>)
        /\ (Made("GET SEARCH_PORTFOLIOS") /\ Len(world.portfolios) # 1) =>
              (pc = "raised" /\ calls = <<"GET SEARCH_EDMS", "GET SEARCH_PORTFOLIOS">>)
        /\ (Len(calls) > 2 \/ pc = "returned") =>
              (Len(world.edms) = 1 /\ Len(world.portfolios) = 1)

\* two portfolios carry the name: execute_portfolio_mapping fails after the
\* two searches and runs no SQL
C14_Witness ==
    /\ op = "execute_portfolio_mapping"
    /\ Len(world.edms) = 1
    /\ Len(world.portfolios) = 2
    /\ world.sql_file_exists
    /\ pc = "raised"
    /\ calls = <<"GET SEARCH_EDMS", "GET SEARCH_PORTFOLIOS">>

\* the items of a list that carry the name looked for
Matches(data_list, target_name) ==
    {i \in 1..Len(data_list) : get(data_list[i], "name", "") = target_name}

\* C15: a lookup by name that finds no match fails with a reference-data
\* error; one that finds exactly one match returns it; one that finds two or
\* more fails with a reference-data error that states their number and asks
\* for a unique name.  So does find_reference_data_by_name, and so do the EDM
\* and portfolio lookups of the managers.
C15_LookupOutcomes ==
    /\ (op = "find_reference_data_by_name" /\ Called) =>
          LET n == Cardinality(Matches(args.data_list, args.target_name))
          IN  /\ n = 0 => RaisedOfType("IRPReferenceDataError")
              /\ n = 1 => /\ pc = "returned"
                          /\ get(result, "name", "") = args.target_name
              /\ n >= 2 => /\ RaisedOfType("IRPReferenceDataError")
                           /\ raised.info = ToString(n) \o " found, please use a unique name"
    /\ (op \in LookupOps /\ Called) =>
          /\ (Made("GET SEARCH_EDMS") /\ Len(world.edms) # 1) =>
                RaisedOfType("IRPReferenceDataError")
          /\ (Made("GET SEARCH_PORTFOLIOS") /\ Len(world.portfolios) # 1) =>
                RaisedOfType("IRPReferenceDataError")

Posted == Made("POST GEOHAZ_PORTFOLIO")

\* C16: submit_geohaz_job makes its submission POST only for a portfolio that
\* has an account, one of whose accounts has a locationsCount other than 0;
\* once the accounts were fetched, a portfolio without accounts and one whose
\* accounts all have locationsCount 0 fail with two different errors, without
\* a submission POST.
C16_GeohazNeedsLocations ==
    (op = "submit_geohaz_job" /\ Called) =>
        LET accounts == world.accounts
            counted == {i \in 1..Len(accounts) :
                            get(accounts[i], "locationsCount", 0) # 0}
            all_zero == \A i \in 1..Len(accounts) :
                            /\ "locationsCount" \in DOMAIN accounts[i]
                            /\ accounts[i].locationsCount = 0
        IN  /\ Posted => (Len(accounts) >= 1 /\ counted # {})
            /\ Made("GET SEARCH_ACCOUNTS_BY_PORTFOLIO") =>
                  /\ accounts = <<>> =>
                        /\ RaisedOfType("IRPAPIError")
                        /\ raised.info = "does not have any Accounts/Locations"
                        /\ ~Posted
                  /\ (accounts # <<>> /\ all_zero) =>
                        /\ RaisedOfType("IRPAPIError")
                        /\ raised.info = "has accounts but no locations"
                        /\ raised.info # "does not have any Accounts/Locations"
                        /\ ~Posted

\* two accounts without locations: the second error, and no POST
C16_Witness ==
    /\ op = "submit_geohaz_job"
    /\ Len(world.accounts) = 2
    /\ Made("GET SEARCH_ACCOUNTS_BY_PORTFOLIO")
    /\ pc = "raised"
    /\ raised.info = "has accounts but no locations"
    /\ ~Posted

DecodeOps == {"decode_mri_credentials", "decode_presign_params"}

\* the payload a credential decoder was given and the fields it requires
Payload == IF op = "decode_mri_credentials" THEN args.response_json
           ELSE IF op = "decode_presign_params" THEN args.presign_params
           ELSE world.answer.body.value
RequiredOf(o) ==
    IF o = "decode_presign_params"
    THEN <<"accessKeyId", "secretAccessKey", "sessionToken", "path", "region">>
    ELSE <<"accessKeyId", "secretAccessKey", "sessionToken", "s3Path", "s3Region">>
MissingFrom(payload, required) ==
    SelectSeq(required, LAMBDA f : f \notin DOMAIN payload)

\* C17: a credential decoder given a payload that lacks one or more of its
\* five required fields fails with an API error whose message lists exactly
\* the required fields that are missing, and has called decode_base64_field
\* on no field.
C17_MissingFieldsNamed ==
    (op \in DecodeOps /\ Called) =>
        LET missing == MissingFrom(Payload, RequiredOf(op))
        IN  missing # <<>> =>
                /\ RaisedOfType("IRPAPIError")
                /\ raised.info = "missing fields: " \o join(missing)
                /\ calls = <<>>

\* two fields are missing, and of those present the first is not decodable
C17_Witness ==
    /\ op = "decode_presign_params"
    /\ Called
    /\ MissingFrom(Payload, RequiredOf(op)) = <<"sessionToken", "region">>
    /\ Payload.accessKeyId \notin DOMAIN Base64Utf8
    /\ raised.info = "missing fields: sessionToken, region"
    /\ calls = <<>>

\* a record that holds the five credentials, each the decoding of its field
FullCredentials(record, payload, required) ==
    /\ {CredentialKeys[i] : i \in 1..5} \subseteq DOMAIN record
    /\ \A i \in 1..5 :
          /\ payload[required[i]] \in DOMAIN Base64Utf8
          /\ record[CredentialKeys[i]] = Base64Utf8[payload[required[i]]]

\* C18: a credential decoder, and get_file_credentials once it has made its
\* request, either returns a record that holds all five credentials decoded
\* or fails with an API error.
C18_AllOrNothing ==
    (Called /\ (op \in DecodeOps \/ (op = "get_file_credentials" /\ Made("POST path")))) =>
        \/ RaisedOfType("IRPAPIError")
        \/ /\ pc = "returned"
           /\ FullCredentials(result, Payload, RequiredOf(op))

\* str.lower() on the strings used as headers and mapping sources
lower(s) ==
    CASE s \in {"zip", "Zip", "ZIP"} -> "zip"
      [] s \in {"city", "CITY"} -> "city"
      [] OTHER -> s
SameIgnoringCase(a, b) == lower(a) = lower(b)
Sourced(items, header) ==
    {i \in 1..Len(items) : SameIgnoringCase(items[i].source, header)}

\* C19: _add_missing_sources keeps the entries it was given; for a header that
\* equals the source of none of them, case ignored, the list holds the entry
\* {source: upper(header), destination: upper(header)} afterwards; for a
\* header that equals the source of one of them, case ignored, no entry is
\* added.
C19_AddsMissingSourcesOnly ==
    (op = "_add_missing_sources" /\ Called) =>
        /\ pc = "returned"
        /\ SubSeq(result.items, 1, Len(args.items)) = args.items
        /\ result.modified <=> result.items # args.items
        /\ \A k \in 1..Len(args.headers) :
              LET header == args.headers[k]
              IN  IF Sourced(args.items, header) = {}
                  THEN \E i \in 1..Len(result.items) :
                          result.items[i] = [source |-> upper(header),
                                             destination |-> upper(header)]
                  ELSE Sourced(result.items, header) = Sourced(args.items, header)

\* header "zip" meets the source "ZIP" and adds nothing; header "city" is new
C19_Witness ==
    /\ op = "_add_missing_sources"
    /\ Called
    /\ args.headers = <<"zip", "city">>
    /\ args.items = <<[source |-> "ZIP", destination |-> "PostalCode"]>>
    /\ result.items = <<[source |-> "ZIP", destination |-> "PostalCode"],
                        [source |-> "CITY", destination |-> "CITY"]>>

\* C20: after _sync_mapping_with_csv_headers the mapping file holds, for every
\* header of the accounts file, an accountItems entry whose source equals it,
\* case ignored, and for every header of the locations file such a
\* locationItems entry.
C20_EveryHeaderMapped ==
    (op = "_sync_mapping_with_csv_headers" /\ pc = "returned") =>
        LET files == world.files
        IN  /\ \A k \in 1..Len(files.accounts) :
                  Sourced(get(files.mapping, "accountItems", <<>>), files.accounts[k]) # {}
            /\ \A k \in 1..Len(files.locations) :
                  Sourced(get(files.mapping, "locationItems", <<>>), files.locations[k]) # {}

----------------------------------------------------------------------------
(* Properties of the import pipeline *)

\* the steps of submit_mri_import_job that show in calls, in the order in
\* which the code takes them
Pipeline ==
    <<"GET SEARCH_EDMS", "GET SEARCH_PORTFOLIOS",
      "validate_file_exists accounts_file_name",
      "validate_file_exists locations_file_name",
      "validate_file_exists mapping_file_name",
      "json.load mapping", "json.dump mapping",
      "POST CREATE_AWS_BUCKET",
      "POST path", "s3.upload_file",
      "POST path", "s3.upload_file",
      "POST CREATE_MAPPING", "POST EXECUTE_IMPORT">>

Without(seq, call) == SelectSeq(seq, LAMBDA c : c # call)
IsPrefix(p, q) == Len(p) <= Len(q) /\ SubSeq(q, 1, Len(p)) = p
Count(call) == Cardinality({i \in 1..Len(calls) : calls[i] = call})

\* the calls made, without the decoding of the credentials
PipelineCalls ==
    SelectSeq(calls, LAMBDA c : c \in {Pipeline[i] : i \in 1..Len(Pipeline)})

\* the place in the pipeline, the write of the mapping file left out, of the
\* call that a failing step makes
StepIndex ==
    "search_edms" :> 1 @@ "search_portfolios" :> 2 @@ "create_aws_bucket" :> 7
        @@ "accounts_credentials" :> 8 @@ "accounts_upload" :> 9
        @@ "locations_credentials" :> 10 @@ "locations_upload" :> 11
        @@ "upload_mapping_file" :> 12

\* the mapping holds an entry for every header of the two data files
EveryHeaderMapped(mapping, files) ==
    /\ \A k \in 1..Len(files.accounts) :
          Sourced(get(mapping, "accountItems", <<>>), files.accounts[k]) # {}
    /\ \A k \in 1..Len(files.locations) :
          Sourced(get(mapping, "locationItems", <<>>), files.locations[k]) # {}

\* C21: submit_mri_import_job takes its steps in one order: EDM lookup,
\* portfolio lookup, the three file checks, mapping sync (read, then written
\* if it changed), bucket creation, accounts credentials and upload, locations
\* credentials and upload, mapping upload, import submission.  The calls it
\* has made are always a beginning of that sequence, nothing follows the call
\* of a step that failed, and a call that returns has made them all.  The
\* import is submitted only after the two uploads and the mapping upload, and
\* the mapping the server was sent is the one in the synchronized file.
C21_FixedOrderOfSteps ==
    (op = "submit_mri_import_job" /\ Called) =>
        /\ \/ IsPrefix(PipelineCalls, Pipeline)
           \/ IsPrefix(PipelineCalls, Without(Pipeline, "json.dump mapping"))
        /\ world.failing # "" =>
              Len(Without(PipelineCalls, "json.dump mapping")) <= StepIndex[world.failing]
        /\ pc = "returned" =>
              PipelineCalls \in {Pipeline, Without(Pipeline, "json.dump mapping")}
        /\ Made("POST EXECUTE_IMPORT") =>
              /\ Count("s3.upload_file") = 2
              /\ Count("POST CREATE_MAPPING") = 1
              /\ world.posted # NotSet
        /\ world.posted # NotSet =>
              /\ Made("POST CREATE_MAPPING")
              /\ world.posted = world.files.mapping
              /\ EveryHeaderMapped(world.posted, world.files)

\* a call that went through every step, the write of the mapping included
C21_Witness ==
    /\ op = "submit_mri_import_job"
    /\ pc = "returned"
    /\ PipelineCalls = Pipeline
    /\ world.posted = world.files.mapping
    /\ world.posted.accountItems = <<[source |-> "ZIP", destination |-> "ZIP"]>>

\* the error with which each step fails when the call it makes fails
ErrorOf(step) ==
    CASE step = "search_edms" -> [type |-> "IRPAPIError", info |-> "Failed to search EDMs"]
      [] step = "search_portfolios" ->
            [type |-> "IRPAPIError", info |-> "Failed to search portfolios"]
      [] step = "create_aws_bucket" ->
            [type |-> "IRPAPIError", info |-> "HTTP request failed"]
      [] step \in {"accounts_credentials", "locations_credentials"} ->
            [type |-> "IRPAPIError", info |-> "Failed to get file credentials"]
      [] step \in {"accounts_upload", "locations_upload"} ->
            [type |-> "IRPFileError", info |-> "Failed to upload file to S3"]
      [] step = "upload_mapping_file" ->
            [type |-> "IRPAPIError", info |-> "Failed to upload mapping file"]

\* the calls of the pipeline and the decoding of the credentials it receives
OwnCalls ==
    {Pipeline[i] : i \in 1..Len(Pipeline)}
        \cup {"decode_base64_field " \o CredentialField :
                CredentialField \in MriFields}

\* C22: submit_mri_import_job does not roll back.  When it ends with an error
\* it has made no call but the calls of its steps, the last of them by the
\* step that failed; when the call of a step fails, the operation ends with
\* the error of that step; the mapping file that the sync rewrote stays
\* rewritten, and the mapping the server was sent stays sent.
C22_NoRollback ==
    (op = "submit_mri_import_job" /\ pc = "raised") =>
        /\ \A i \in 1..Len(calls) : calls[i] \in OwnCalls
        /\ \/ IsPrefix(PipelineCalls, Pipeline)
           \/ IsPrefix(PipelineCalls, Without(Pipeline, "json.dump mapping"))
        /\ (/\ world.failing # ""
            /\ Len(Without(PipelineCalls, "json.dump mapping")) = StepIndex[world.failing]) =>
              raised = ErrorOf(world.failing)
        /\ Made("json.dump mapping") =>
              /\ world.files.mapping.accountItems # <<>>
              /\ EveryHeaderMapped(world.files.mapping, world.files)
        /\ (Made("POST CREATE_MAPPING") /\ world.failing # "upload_mapping_file") =>
              world.posted = world.files.mapping

\* the upload of the locations file fails: the mapping file was rewritten, the
\* bucket made and the accounts file uploaded, and nothing is undone
C22_Witness ==
    /\ op = "submit_mri_import_job"
    /\ world.failing = "locations_upload"
    /\ RaisedOfType("IRPFileError")
    /\ Made("json.dump mapping")
    /\ world.files.mapping.accountItems = <<[source |-> "ZIP", destination |-> "ZIP"]>>
    /\ Count("s3.upload_file") = 2
    /\ calls[Len(calls)] = "s3.upload_file"

----------------------------------------------------------------------------
(* Properties of Client.request and of the Location helpers *)

\* the attempt that was sent last
FinalAttempt == world.attempts[Len(calls)]

\* C23: Client.request, called with a method, returns only a response whose
\* status code is below 400, the one of the last attempt; whenever the last
\* attempt was answered 4xx or 5xx (a retryable status after the last retry
\* included) or was not answered at all, it raises an API error.
C23_ResponseOnlyBelow400 ==
    (op = "request" /\ Called /\ validate_non_empty_string(args.method)) =>
        /\ calls # <<>>
        /\ pc = "returned" =>
              /\ result = FinalAttempt
              /\ result.status_code < 400
        /\ FinalAttempt.kind # "response" => RaisedOfType("IRPAPIError")
        /\ (FinalAttempt.kind = "response" /\ FinalAttempt.status_code >= 400) =>
              RaisedOfType("IRPAPIError")
        /\ (Len(calls) < RetryTotal + 1 /\ FinalAttempt.kind = "response") =>
              (FinalAttempt.status_code \notin status_forcelist
                  \/ args.method \notin allowed_methods)

\* 503 on the first attempt and on each of the five retries
C23_Witness ==
    /\ op = "request"
    /\ args.method = "GET"
    /\ Len(calls) = RetryTotal + 1
    /\ \A i \in 1..(RetryTotal + 1) : world.attempts[i] = Attempt(503)
    /\ RaisedOfType("IRPAPIError")
    /\ raised.info = "HTTP request failed"

\* C24: extract_id_from_location_header fails with an API error when the
\* response has no Location header; otherwise, the header being the "/"-join
\* of its pieces, it returns the last piece when that is not empty and fails
\* with an API error when it is (the header is empty or ends in "/").  It
\* never returns an empty identifier.
C24_LastSegmentOrError ==
    (op = "extract_id_from_location_header" /\ Called) =>
        LET headers == args.response.headers
        IN  /\ "location" \notin DOMAIN headers => RaisedOfType("IRPAPIError")
            /\ "location" \in DOMAIN headers =>
                  \E parts \in LocationParts :
                      /\ slash_join(parts) = headers.location
                      /\ IF parts[Len(parts)] = ""
                         THEN RaisedOfType("IRPAPIError")
                         ELSE pc = "returned" /\ result = parts[Len(parts)]
            /\ pc = "returned" => result # ""

\* a Location that ends in "/"
C24_Witness ==
    /\ op = "extract_id_from_location_header"
    /\ "location" \in DOMAIN args.response.headers
    /\ args.response.headers.location = "https://host/jobs/"
    /\ RaisedOfType("IRPAPIError")
    /\ raised.info = "Could not extract ID from Location header"

----------------------------------------------------------------------------
(* Properties of the batch pollers *)

\* C25: when the final tick of poll_workflow_batch_to_completion took more
\* than one page, the workflows that can be read from the response it returns
\* are the workflows of all the pages of that tick, in the order received.
C25_ReturnsAllPagesCombined ==
    (/\ op = "poll_workflow_batch_to_completion"
     /\ pc = "returned"
     /\ Len(page_log.offsets) >= 2) =>
        get(result, "workflows", <<>>) = tick_log

----------------------------------------------------------------------------
(* Properties of execute_portfolio_mapping *)

\* the arguments pass the validation and both lookups find their one match
LookupsSucceed ==
    /\ FirstRejected(<<NonEmptyString(args, "portfolio_name"),
                       NonEmptyString(args, "edm_name"),
                       NonEmptyString(args, "import_file"),
                       NonEmptyString(args, "cycle_type")>>) = ""
    /\ world.cycle_type_directory
    /\ world.failing = ""
    /\ Len(world.edms) = 1
    /\ {"exposureId", "databaseName"} \subseteq DOMAIN world.edms[1]
    /\ world.edms[1].exposureId > 0
    /\ Len(world.portfolios) = 1
    /\ "portfolioId" \in DOMAIN world.portfolios[1]

\* C26: when the lookups of execute_portfolio_mapping succeed and the SQL
\* script is not there, the operation returns a result with status SKIPPED,
\* raises nothing and executes no SQL.  SQL is executed only when the lookups
\* succeeded and the script is there, and a result with status FINISHED is
\* returned only then, with the number of result sets of the execution.
C26_MissingScriptIsSkipped ==
    (op = "execute_portfolio_mapping" /\ Called) =>
        /\ (LookupsSucceed /\ ~world.sql_file_exists) =>
              /\ pc = "returned"
              /\ result.status = "SKIPPED"
              /\ ~Made("execute_query_from_file")
        /\ Made("execute_query_from_file") =>
              (LookupsSucceed /\ world.sql_file_exists)
        /\ pc = "returned" =>
              /\ result.status \in {"SKIPPED", "FINISHED"}
              /\ result.status = "SKIPPED" <=> ~world.sql_file_exists
              /\ result.status = "FINISHED" =>
                    /\ Made("execute_query_from_file")
                    /\ result.result_sets_count = Len(world.result_sets)
        /\ (LookupsSucceed /\ world.sql_file_exists /\ world.sql_runs) =>
              (pc = "returned" /\ result.status = "FINISHED")

\* the script is not there: SKIPPED after the two lookups
C26_Witness ==
    /\ op = "execute_portfolio_mapping"
    /\ LookupsSucceed
    /\ ~world.sql_file_exists
    /\ pc = "returned"
    /\ result.status = "SKIPPED"
    /\ calls = <<"GET SEARCH_EDMS", "GET SEARCH_PORTFOLIOS">>

----------------------------------------------------------------------------
(* Properties of the error taxonomy *)

Taxonomy ==
    {"IRPValidationError", "IRPAPIError", "IRPJobError", "IRPWorkflowError",
     "IRPFileError", "IRPReferenceDataError"}

\* C27: an operation of a manager or of the client that fails, fails with an
\* error of the taxonomy: validation, API, job or workflow timeout, file,
\* reference data.
C27_OnlyTaxonomyErrors ==
    (op \in ManagerOps \cup ClientOps /\ pc = "raised") => raised.type \in Taxonomy

----------------------------------------------------------------------------
(* Properties of the suspension between ticks *)

BatchOps == ListOps \cup GeohazBatchOps

\* C28: a poller sleeps only between two ticks, once, and for `interval`
\* seconds each time.  Nothing has slept when the first fetch is made; a tick
\* that neither returns nor raises is followed by one time.sleep(interval) and
\* then by the first fetch of the next tick; the clock moves on by exactly
\* `interval` in it, whatever the number of ticks before; the step that
\* returns or raises does not sleep.  In a single-handle poller the number of
\* sleeps is the number of ticks less one once the last tick is over.
C28_OneSleepBetweenTicks ==
    /\ [](  /\ pc \in {"start", "submit"} => sleeps = 0
            /\ (pc = "fetch" /\ sleeps = 0) => now - start = 0 \/ op \in BatchOps
            /\ op \in SingleOps \cup ExecOps =>
                  sleeps = (IF pc = "fetch" \/ seen = <<>> THEN Len(seen)
                            ELSE Len(seen) - 1)  )
    /\ [][  /\ sleeps' # sleeps =>
                  /\ pc = "sleep"
                  /\ pc' = "fetch"
                  /\ sleeps' = sleeps + 1
                  /\ now' = now + interval
                  /\ tick_log' = <<>>
                  /\ page_log' = NoPages
            /\ pc = "sleep" => sleeps' = sleeps + 1
            /\ pc' \in Terminal => (sleeps' = sleeps /\ pc # "sleep")
            /\ (pc = "fetch" /\ pc' = "fetch") => sleeps' = sleeps  ]_vars

\* a third tick ends the poll, two sleeps after the first fetch
C28_Witness ==
    /\ op \in SingleOps
    /\ pc \in Terminal
    /\ Len(seen) = 3
    /\ sleeps = 2
    /\ interval = 1

----------------------------------------------------------------------------
(* Properties of the geohaz batch poller *)

InProgress(body) == StatusOf(body) \in WORKFLOW_IN_PROGRESS_STATUSES

\* C29: in a tick of poll_geohaz_job_batch_to_completion the k-th status call
\* is for the k-th job id.  A status in IN_PROGRESS ends the calls of the tick:
\* it can only be the status of the last call made in the tick, the tick is
\* then over (sleep, return or raise), no later job id was asked for, the
\* accumulator is empty, and what the poller returns at such a tick holds
\* none of the records fetched in it.
C29_StopsAtFirstInProgress ==
    /\ [](  op \in GeohazBatchOps =>
              /\ Len(tick_log) <= Len(handle)
              /\ \A k \in 1..Len(tick_log) :
                    /\ tick_log[k].id = handle[k]
                    /\ handle[k] \in targets
                    /\ (InProgress(tick_log[k]) /\ "status" \in DOMAIN tick_log[k]) =>
                          /\ k = Len(tick_log)
                          /\ pc # "fetch"
                          /\ all_items = <<>>
                          /\ pc = "returned" => result = <<>>  )
    /\ [][  (op \in GeohazBatchOps /\ tick_log # <<>>
                /\ InProgress(tick_log[Len(tick_log)])) =>
              (tick_log' = <<>> \/ tick_log' = tick_log)  ]_vars

\* the first job is FINISHED and the second RUNNING: both records are dropped
C29_Witness ==
    /\ op \in GeohazBatchOps
    /\ Len(handle) = 2
    /\ Len(tick_log) = 2
    /\ StatusOf(tick_log[1]) = "FINISHED"
    /\ StatusOf(tick_log[2]) = "RUNNING"
    /\ all_items = <<>>
    /\ pc \in Terminal \cup {"sleep"}

----------------------------------------------------------------------------
(* Properties of the batch timeout *)

BatchTimeout ==
    IF op = "poll_workflow_batch_to_completion"
    THEN [type |-> "IRPWorkflowError", info |-> "batch"]
    ELSE [type |-> "IRPJobError", info |-> "batch"]

\* the tick found work in progress: a listed workflow in IN_PROGRESS, or, in
\* the geohaz batch, the first job in IN_PROGRESS
TickIncomplete ==
    IF op \in ListOps THEN ~NoneInProgress(tick_log)
    ELSE tick_log # <<>> /\ InProgress(tick_log[1])

\* C30: a batch poller that times out raises one error for the batch, which
\* names no handle and carries no record, and returns nothing.  It raises it
\* at the end of a tick that found work in progress, when the time elapsed
\* since the start exceeds the timeout; a tick that ends within the timeout
\* sleeps instead; the error is raised by the last request of a tick, never by
\* the sleep, and every tick before it was followed by its sleep.
C30_BatchTimeout ==
    /\ [](  op \in BatchOps =>
              /\ TimedOut =>
                    /\ raised = BatchTimeout
                    /\ result = NotSet
                    /\ TickIncomplete
                    /\ now - start > timeout
              /\ pc = "sleep" => (TickIncomplete /\ now - start <= timeout)  )
    /\ [][  (op \in BatchOps /\ ~TimedOut /\ TimedOut') =>
              (pc = "fetch" /\ sleeps' = sleeps /\ now' >= now)  ]_vars

\* the batch times out at a tick that followed a sleep
C30_Witness ==
    /\ op \in BatchOps
    /\ TimedOut
    /\ raised = BatchTimeout
    /\ sleeps >= 1
    /\ TickIncomplete
    /\ result = NotSet

----------------------------------------------------------------------------
(* Properties of the creation of portfolios *)

Created_Portfolio == Made("POST CREATE_PORTFOLIO")

\* C31: create_portfolio makes its creation POST only when the EDM search
\* returned exactly one EDM and the portfolio search was made and returned no
\* portfolio; when the portfolio search returns one or more portfolios the
\* operation fails with an API error that states their number, and makes no
\* POST.
C31_CreatesOnlyNewPortfolios ==
    (op = "create_portfolio" /\ Called) =>
        /\ Created_Portfolio =>
              /\ Len(world.edms) = 1
              /\ Made("GET SEARCH_PORTFOLIOS")
              /\ world.failing = ""
              /\ Len(world.portfolios) = 0
              /\ calls = <<"GET SEARCH_EDMS", "GET SEARCH_PORTFOLIOS",
                           "POST CREATE_PORTFOLIO">>
        /\ (Made("GET SEARCH_PORTFOLIOS") /\ world.failing = ""
                /\ Len(world.portfolios) >= 1) =>
              /\ RaisedOfType("IRPAPIError")
              /\ raised.info = ToString(Len(world.portfolios))
                                  \o " portfolios found, please use a unique name"
              /\ ~Created_Portfolio

\* one portfolio carries the name already
C31_Witness ==
    /\ op = "create_portfolio"
    /\ Len(world.edms) = 1
    /\ Len(world.portfolios) = 1
    /\ calls = <<"GET SEARCH_EDMS", "GET SEARCH_PORTFOLIOS">>
    /\ RaisedOfType("IRPAPIError")
    /\ raised.info = "1 portfolios found, please use a unique name"

\* the list given to a list operation, and what the call made for its entry i
\* alone comes to
DataList ==
    IF op = "create_portfolios" THEN args.portfolio_data_list
    ELSE args.geohaz_data_list
EntryOutcome(i) ==
    IF ~(EntryKeys(op) \subseteq DOMAIN DataList[i])
    THEN Done(Raise("IRPAPIError", MissingValue(op)), <<>>)
    ELSE SubmitOne(op, DataList[i], world.answers[i])
FailingEntries == {i \in 1..Len(DataList) : Failed(EntryOutcome(i))}
FirstFailing == CHOOSE i \in FailingEntries : \A j \in FailingEntries : i <= j
LastProcessed == IF FailingEntries = {} THEN Len(DataList) ELSE FirstFailing
Submission == IF op = "create_portfolios" THEN "POST CREATE_PORTFOLIO"
              ELSE "POST GEOHAZ_PORTFOLIO"
Submitted(i) ==
    Cardinality({k \in 1..Len(EntryOutcome(i).calls) :
                    EntryOutcome(i).calls[k] = Submission})
RECURSIVE CallsUpTo(_)
CallsUpTo(k) == IF k = 0 THEN <<>> ELSE CallsUpTo(k - 1) \o EntryOutcome(k).calls

\* C32: create_portfolios and submit_geohaz_jobs, given a list that is not
\* empty, make the calls of their entries in the order of the list, with one
\* submission for each entry that succeeds. At the first entry that fails they
\* end with that entry's error: no call is made for a later entry, no ID is
\* returned, and what the earlier entries created is left (no call other than
\* the searches and submissions is made). When no entry fails they return one
\* ID for each entry, in the order of the list.
C32_EntriesInOrderStopAtFirstFailure ==
    (op \in BulkOps /\ Called /\ Len(DataList) > 0) =>
        /\ calls = CallsUpTo(LastProcessed)
        /\ \A i \in 1..Len(calls) : calls[i] \in HttpCalls
        /\ \A i \in 1..Len(DataList) : ~Failed(EntryOutcome(i)) => Submitted(i) = 1
        /\ FailingEntries # {} =>
              /\ pc = "raised"
              /\ raised = EntryOutcome(FirstFailing).raised
              /\ result = NotSet
              /\ Count(Submission) =
                    (FirstFailing - 1) + Submitted(FirstFailing)
        /\ FailingEntries = {} =>
              /\ pc = "returned"
              /\ Len(result) = Len(DataList)
              /\ \A i \in 1..Len(DataList) : result[i] = EntryOutcome(i).result[1]
              /\ Count(Submission) = Len(DataList)

\* the first entry's portfolio is created, the second entry fails
C32_Witness ==
    /\ op = "create_portfolios"
    /\ Len(DataList) = 2
    /\ FailingEntries = {2}
    /\ pc = "raised"
    /\ result = NotSet
    /\ Count("POST CREATE_PORTFOLIO") = 1
    /\ calls = <<"GET SEARCH_EDMS", "GET SEARCH_PORTFOLIOS", "POST CREATE_PORTFOLIO",
                 "GET SEARCH_EDMS", "GET SEARCH_PORTFOLIOS">>

----------------------------------------------------------------------------
(* Properties of concurrent calls *)

\* the answer of the server to the k-th status GET for the handle of a call
AnswerTo(a, k) ==
    LET script == world.script[UrlOf(a)]
    IN  script[IF k < Len(script) THEN k ELSE Len(script)]

\* the outcome of the call of the thread that runs, had it run alone: from its
\* k-th tick on, begun at time t
RECURSIVE Alone(_, _)
Alone(k, t) ==
    LET answer == AnswerTo(args[running], k)
        at == Advance(t, answer.d)
        out == SingleTickOf(answer.body, at)
    IN  IF out.pc = "sleep" THEN Alone(k + 1, at + interval) ELSE out

\* C33: two single-handle pollers run concurrently on one Client for different
\* handles. Under every interleaving of their steps the Client is as it was
\* constructed, each poller runs with the arguments of its own call, every
\* status it has fetched is the server's answer for its own handle, in order,
\* and its outcome is the one it has when it runs alone on those answers with
\* its own interval and timeout.
C33_PollersDoNotInterfere ==
    frames # NotSet =>
        /\ client = Client
        /\ <<op, handle, interval, timeout>> =
              <<args[running].op, args[running].handle, args[running].interval,
                args[running].timeout>>
        /\ \A k \in 1..Len(seen) : seen[k] = AnswerTo(args[running], k).body
        /\ targets \subseteq {args[running].handle}
        /\ Called => [pc |-> pc, result |-> result, raised |-> raised] = Alone(1, 0)

\* the first thread has finished its call after the second one has fetched
\* statuses of its own handle
C33_Witness ==
    /\ frames # NotSet
    /\ running = 1
    /\ pc = "returned"
    /\ Len(seen) = 2
    /\ frames[2].pc = "sleep"
    /\ Len(frames[2].seen) >= 1
    /\ world.script[UrlOf(args[1])][1].body # world.script[UrlOf(args[2])][1].body

----------------------------------------------------------------------------
(* Properties of the order of the completion test and the timeout test *)

\* the fetch of the current tick shows completion: a single-handle poller has
\* fetched a record with its required fields and a status in COMPLETED; a
\* list-style batch poller has fetched every page of the tick and no workflow
\* of them is in IN_PROGRESS; the geohaz batch poller has fetched the record of
\* every job id, each with a status, none in IN_PROGRESS
CompleteTick ==
    IF op \in SingleOps \cup ExecOps
    THEN /\ seen # <<>>
         /\ WellFormed(LastSeen)
         /\ StatusOf(LastSeen) \in WORKFLOW_COMPLETED_STATUSES
    ELSE IF op \in ListOps
    THEN /\ response # NotSet
         /\ page_log.offsets # <<>>
         /\ Len(tick_log) >= response.totalMatchCount
         /\ NoneInProgress(tick_log)
    ELSE /\ Len(tick_log) = Len(handle)
         /\ tick_log # <<>>
         /\ \A k \in 1..Len(tick_log) :
               "status" \in DOMAIN tick_log[k] /\ ~InProgress(tick_log[k])

\* C34: completion takes precedence over the timeout.  In every single-handle
\* and batch poller a tick whose fetch shows completion returns, whatever the
\* time elapsed at that tick; the timeout error is never raised at such a
\* tick, and the step that ends such a tick never raises it.
C34_CompletionBeforeTimeout ==
    /\ [](  op \in Ops =>
              /\ CompleteTick => pc = "returned"
              /\ TimedOut => ~CompleteTick  )
    /\ [][  (op \in Ops /\ CompleteTick' /\ ~CompleteTick) =>
              (pc = "fetch" /\ pc' = "returned")  ]_vars

\* a batch poller returns at a tick that ended after the timeout had passed
C34_Witness ==
    /\ op \in BatchOps
    /\ CompleteTick
    /\ pc = "returned"
    /\ now - start > timeout
    /\ sleeps >= 1

\* a single-handle poller returns at a tick that ended after the timeout
C34_SingleWitness ==
    /\ op \in SingleOps
    /\ CompleteTick
    /\ pc = "returned"
    /\ now - start > timeout

----------------------------------------------------------------------------
(* Properties of records without a status the pollers know *)

\* the item has no status field, or a status in neither set
Unclassified(item) ==
    StatusOf(item) \notin WORKFLOW_COMPLETED_STATUSES \cup WORKFLOW_IN_PROGRESS_STATUSES

Items(log) == {log[k] : k \in 1..Len(log)}

\* every page of the tick was fetched
PaginationEnded ==
    /\ response # NotSet
    /\ page_log.offsets # <<>>
    /\ Len(tick_log) >= response.totalMatchCount

\* C35: in the list-style batch pollers only a workflow with a status in
\* IN_PROGRESS keeps the batch waiting: a tick whose pages hold none returns,
\* whatever the number of its workflows that have no status field or a status
\* in neither set; the poller raises no error other than the one for a page
\* without totalMatchCount, the timeout and the validation of its arguments,
\* and it times out or sleeps only at a tick that fetched a workflow in
\* IN_PROGRESS.  poll_geohaz_job_batch_to_completion raises an API error at
\* the fetch of a job record that has no status field: such a record is the
\* last one it fetched.
C35_OnlyInProgressBlocks ==
    /\ op \in ListOps =>
          /\ (PaginationEnded
                /\ \A w \in Items(tick_log) :
                      StatusOf(w) \notin WORKFLOW_IN_PROGRESS_STATUSES) =>
                pc = "returned"
          /\ pc = "raised" =>
                \/ TimedOut
                \/ RaisedOfType("IRPValidationError")
                \/ raised = [type |-> "IRPAPIError", info |-> "Missing 'totalMatchCount'"]
          /\ (TimedOut \/ pc = "sleep") =>
                \E w \in Items(tick_log) : StatusOf(w) \in WORKFLOW_IN_PROGRESS_STATUSES
    /\ op \in GeohazBatchOps =>
          \A k \in 1..Len(tick_log) :
              "status" \notin DOMAIN tick_log[k] =>
                  /\ k = Len(tick_log)
                  /\ raised = [type |-> "IRPAPIError", info |-> "Missing 'status'"]
                  /\ pc = "raised"

\* a list-style batch poller returns at a tick that fetched a page of COMPLETED
\* workflows and a page of workflows without a status or with an unknown one
C35_Witness ==
    /\ op \in ListOps
    /\ pc = "returned"
    /\ Len(page_log.offsets) = 2
    /\ \E w \in Items(tick_log) : "status" \notin DOMAIN w
    /\ \E w \in Items(tick_log) : StatusOf(w) = "UNKNOWN"
    /\ \E w \in Items(tick_log) : StatusOf(w) = "FINISHED"

\* the geohaz batch poller fails at the second job, whose record has no status
C35_GeohazWitness ==
    /\ op \in GeohazBatchOps
    /\ Len(tick_log) = 2
    /\ "status" \notin DOMAIN tick_log[2]
    /\ RaisedOfType("IRPAPIError")

----------------------------------------------------------------------------
(* Properties of the mapping sync *)

\* the sources of the entries are pairwise distinct, case ignored
DistinctSources(items) ==
    \A i, j \in 1..Len(items) :
        i # j => ~SameIgnoringCase(items[i].source, items[j].source)

\* C36: _add_missing_sources keeps the sources of a mapping list pairwise
\* distinct, case ignored: if they are so in the list it is given, they are so
\* in the list it leaves, whatever the headers.
C36_SourcesStayDistinct ==
    (op = "_add_missing_sources" /\ Called /\ DistinctSources(args.items)) =>
        DistinctSources(result.items)

\* every entry of the mapping before is in the mapping after, at its place
AppendOnly(before, after) ==
    \A key \in DOMAIN before :
        /\ key \in DOMAIN after
        /\ IsPrefix(before[key], after[key])

\* a call of the sync takes its step
SyncRuns == op = "_sync_mapping_with_csv_headers" /\ calls' # calls

\* C37: _sync_mapping_with_csv_headers is append-only and idempotent.  A run
\* never removes, reorders or changes an entry the mapping file held before
\* it; a second run, made right after the first with the same data files,
\* leaves the mapping file as the first run left it: it adds no entry and does
\* not write the file.
C37_SyncIdempotentAppendOnly ==
    [][  SyncRuns =>
            /\ AppendOnly(world.files.mapping, world'.files.mapping)
            /\ pc = "returned" =>
                  /\ world'.files = world.files
                  /\ calls' = Append(calls, "json.load mapping")  ]_vars

\* the part of C37 on the entries of the mapping file
C37_MappingKept ==
    [][  SyncRuns =>
            /\ AppendOnly(world.files.mapping, world'.files.mapping)
            /\ pc = "returned" => world'.files = world.files  ]_vars

----------------------------------------------------------------------------
(* Properties of the file credentials *)

UploadFields ==
    {"aws_access_key_id", "aws_secret_access_key", "aws_session_token", "s3_region",
     "s3_path", "file_id", "filename"}

\* C38: every record that get_file_credentials returns holds the seven fields
\* that upload_file_to_s3 requires, so upload_file_to_s3 given such a record
\* passes its required-field validation; in submit_mri_import_job, whose
\* uploads are given the records of get_file_credentials, no upload fails
\* that validation.
C38_CredentialsCarryUploadFields ==
    /\ (op = "get_file_credentials" /\ pc = "returned") =>
          /\ DOMAIN result = UploadFields
          /\ result.filename = args.filename
          /\ upload_file_to_s3(result, [failing |-> ""], "accounts_upload", calls)
                = Done(Return(NotSet), Append(calls, "s3.upload_file"))
    /\ (op = "submit_mri_import_job" /\ RaisedOfType("IRPValidationError")) =>
          raised.info # "credentials"

\* get_file_credentials has returned a record
C38_Witness ==
    /\ op = "get_file_credentials"
    /\ pc = "returned"
    /\ result.file_id = "11"
    /\ result.aws_access_key_id = "AKIA"
    /\ calls[1] = "POST path"

----------------------------------------------------------------------------
(* Properties of the file sizes *)

\* C39: in submit_mri_import_job a file is rejected for its size before the
\* bucket is created: once the request that creates the bucket was made, no
\* step fails a validation of a file size, whatever the sizes of the files in
\* bytes.
C39_SizeRejectedBeforeBucket ==
    (op = "submit_mri_import_job" /\ Made("POST CREATE_AWS_BUCKET")) =>
        ~(RaisedOfType("IRPValidationError") /\ raised.info = "filesize")

----------------------------------------------------------------------------
(* Properties of concurrent mapping syncs *)

SyncsFinished ==
    /\ op = "_sync_mapping_with_csv_headers"
    /\ frames # NotSet
    /\ \A t \in Threads : frames[t].pc = "done"

\* C40: two calls of submit_mri_import_job run their mapping syncs
\* concurrently on one mapping file, each with data files of its own.  Under
\* every interleaving of their steps, once both syncs have finished the
\* mapping file holds a source entry for every header of the data files of
\* both calls.
C40_NoAddedEntryLost ==
    SyncsFinished =>
        \A t \in Threads : EveryHeaderMapped(world.files.mapping, args[t])

====
